---------------------------- MODULE Spec2Model ----------------------------
(***************************************************************************)
(* Model of the smart-linker plugin: the embeddings index and its          *)
(* nearest-neighbour search, the embedding-file parsers and the managed     *)
(* block synchroniser.                                                      *)
(*                                                                          *)
(* Strings are sequences of one-character strings, so that case folding,    *)
(* separator replacement, prefix tests, indexOf and trimming are computed   *)
(* character by character as the code computes them.                        *)
(*                                                                          *)
(* Numbers are fixed-point: the integer n stands for the value n / Scale.   *)
(***************************************************************************)
EXTENDS Integers, Sequences, FiniteSets, TLC

(***************************************************************************)
(* String primitives (JavaScript String methods used by the code)          *)
(***************************************************************************)
UpperChars == <<"A", "B", "C", "D", "E", "F", "G", "H", "I", "J", "K", "L", "M",
                "N", "O", "P", "Q", "R", "S", "T", "U", "V", "W", "X", "Y", "Z">>

LowerChars == <<"a", "b", "c", "d", "e", "f", "g", "h", "i", "j", "k", "l", "m",
                "n", "o", "p", "q", "r", "s", "t", "u", "v", "w", "x", "y", "z">>

\* String.prototype.toLowerCase on one character
toLowerChar(c) ==
    IF \E i \in 1..Len(UpperChars) : UpperChars[i] = c
    THEN LowerChars[CHOOSE i \in 1..Len(UpperChars) : UpperChars[i] = c]
    ELSE c

\* String.prototype.toLowerCase
toLowerCase(s) == [i \in 1..Len(s) |-> toLowerChar(s[i])]

\* s.replace(/\\/g, "/")
replaceBackslashes(s) == [i \in 1..Len(s) |-> IF s[i] = "\\" THEN "/" ELSE s[i]]

\* String.prototype.startsWith
startsWith(s, p) == Len(p) <= Len(s) /\ SubSeq(s, 1, Len(p)) = p

\* String.prototype.endsWith
endsWith(s, p) == Len(p) <= Len(s) /\ SubSeq(s, Len(s) - Len(p) + 1, Len(s)) = p

\* s.substring(from) with a 0-based index, as in JavaScript
substringFrom(s, from) == SubSeq(s, from + 1, Len(s))

\* s.substring(0, to) with a 0-based exclusive end, as in JavaScript
substringTo(s, to) == SubSeq(s, 1, to)

\* s.indexOf(p, from): 0-based index of the first occurrence at or after from, -1 if none
indexOf(s, p, from) ==
    LET hits == {i \in from..(Len(s) - Len(p)) : SubSeq(s, i + 1, i + Len(p)) = p}
    IN  IF hits = {} THEN -1 ELSE CHOOSE i \in hits : \A j \in hits : i <= j

\* the characters String.prototype.trimEnd / trimStart remove
WhiteSpace == {" ", "\n", "\t", "\r"}

\* String.prototype.trimEnd
trimEnd(s) ==
    LET keep == {i \in 1..Len(s) : s[i] \notin WhiteSpace}
    IN  IF keep = {} THEN <<>>
        ELSE SubSeq(s, 1, CHOOSE i \in keep : \A j \in keep : j <= i)

\* String.prototype.trimStart
trimStart(s) ==
    LET keep == {i \in 1..Len(s) : s[i] \notin WhiteSpace}
    IN  IF keep = {} THEN <<>>
        ELSE SubSeq(s, CHOOSE i \in keep : \A j \in keep : i <= j, Len(s))

\* s.split("/") followed by taking the last part
lastSegment(s) ==
    LET slashes == {i \in 1..Len(s) : s[i] = "/"}
    IN  IF slashes = {} THEN s
        ELSE SubSeq(s, (CHOOSE i \in slashes : \A j \in slashes : j <= i) + 1, Len(s))

\* lines.join("\n")
RECURSIVE joinLines(_)
joinLines(lines) ==
    IF Len(lines) = 0 THEN <<>>
    ELSE IF Len(lines) = 1 THEN lines[1]
    ELSE lines[1] \o <<"\n">> \o joinLines(Tail(lines))

(***************************************************************************)
(* Vector math (similarity/cosine): fixed-point numbers, n means n/Scale   *)
(***************************************************************************)
\* three decimal digits of precision
Scale == 10 * 10 * 10

\* the largest magnitude a vector component takes in the model's inputs
MaxComponent == 2 * Scale

\* Math.sqrt on a fixed-point square sum: the integer root, rounded down
Sqrt(x) == CHOOSE r \in 0..(3 * MaxComponent) : r * r <= x /\ x < (r + 1) * (r + 1)

RECURSIVE sumProducts(_, _, _)
sumProducts(a, b, i) ==
    IF i > Len(a) THEN 0 ELSE a[i] * b[i] + sumProducts(a, b, i + 1)

\* division of fixed-point products, truncated toward zero
DivTrunc(n, d) == IF n >= 0 THEN n \div d ELSE -((-n) \div d)

\* dotProduct: throws when the lengths differ
dotProduct(a, b) ==
    IF Len(a) # Len(b)
    THEN [threw |-> TRUE, value |-> 0]
    ELSE [threw |-> FALSE, value |-> DivTrunc(sumProducts(a, b, 1), Scale)]

\* norm: sqrt of the sum of squares
norm(v) == Sqrt(sumProducts(v, v, 1))

\* normalize: a new vector of unit length, or the zero vector for a zero norm
normalize(v) ==
    LET n == norm(v)
    IN  IF n = 0 THEN [i \in 1..Len(v) |-> 0]
        ELSE [i \in 1..Len(v) |-> DivTrunc(v[i] * Scale, n)]

\* cosineSimilarityNormalized: the dot product of two normalized vectors
cosineSimilarityNormalized(a, b) == dotProduct(a, b)

(***************************************************************************)
(* Decoded JSON values (the result of JSON.parse): one record shape for    *)
(* every JSON type; k holds an object's keys in insertion order and a its  *)
(* values, or an array's elements.                                         *)
(***************************************************************************)
JNull == [t |-> "null", s |-> <<>>, n |-> 0, k |-> <<>>, a |-> <<>>]

JStr(s) == [t |-> "string", s |-> s, n |-> 0, k |-> <<>>, a |-> <<>>]

JNum(n) == [t |-> "number", s |-> <<>>, n |-> n, k |-> <<>>, a |-> <<>>]

JArr(a) == [t |-> "array", s |-> <<>>, n |-> 0, k |-> <<>>, a |-> a]

JObj(k, a) == [t |-> "object", s |-> <<>>, n |-> 0, k |-> k, a |-> a]

\* undefined: what a missing property reads as
JUndefined == [t |-> "undefined", s |-> <<>>, n |-> 0, k |-> <<>>, a |-> <<>>]

\* typeof v === "object" && v !== null && !Array.isArray(v)
isPlainObject(v) == v.t = "object"

\* typeof v === "object" && v !== null  (arrays are objects too)
isNonNullObject(v) == v.t \in {"object", "array"}

\* key in obj
hasKey(obj, key) == \E i \in 1..Len(obj.k) : obj.k[i] = key

\* obj[key]
getKey(obj, key) ==
    IF hasKey(obj, key)
    THEN obj.a[CHOOSE i \in 1..Len(obj.k) : obj.k[i] = key]
    ELSE JUndefined

(***************************************************************************)
(* Parsers (embeddings/parsers)                                            *)
(***************************************************************************)
\* ParseResult | null: ok = FALSE stands for null
NullResult == [ok |-> FALSE, entries |-> <<>>, errorCount |-> 0,
               formatDescription |-> [kind |-> "", n |-> 0]]

ParseResult(entries, errorCount, kind, n) ==
    [ok |-> TRUE, entries |-> entries, errorCount |-> errorCount,
     formatDescription |-> [kind |-> kind, n |-> n]]

\* toFloat32Array: null unless the value is an array of numbers
toFloat32Array(value) ==
    IF value.t # "array" THEN [ok |-> FALSE, vector |-> <<>>]
    ELSE IF \E i \in 1..Len(value.a) : value.a[i].t # "number"
         THEN [ok |-> FALSE, vector |-> <<>>]
         ELSE [ok |-> TRUE, vector |-> [i \in 1..Len(value.a) |-> value.a[i].n]]

\* normalizePath of the three parser files (identical in each)
parserNormalizePath(path) ==
    LET n1 == replaceBackslashes(path)
        n2 == IF startsWith(n1, <<"/">>) THEN substringFrom(n1, 1) ELSE n1
        n3 == IF endsWith(n2, <<"/">>) THEN substringTo(n2, Len(n2) - 1) ELSE n2
    IN  n3

Str_vectors == <<"v", "e", "c", "t", "o", "r", "s">>

Str_path == <<"p", "a", "t", "h">>

Str_embedding == <<"e", "m", "b", "e", "d", "d", "i", "n", "g">>

\* the per-item step accepting an empty path
itemEntry_acceptsEmptyPath(path, embedding) ==
    IF path.t # "string" THEN [ok |-> FALSE, entry |-> <<>>]
    ELSE LET vector == toFloat32Array(embedding)
         IN  IF ~vector.ok THEN [ok |-> FALSE, entry |-> <<>>]
             ELSE [ok |-> TRUE,
                   entry |-> [path |-> parserNormalizePath(path.s), vector |-> vector.vector]]

\* the per-item step of the parsers' loops: the entry an item yields, if any
itemEntry(path, embedding) ==
    IF path.t # "string" \/ Len(path.s) = 0 THEN [ok |-> FALSE, entry |-> <<>>]
    ELSE LET vector == toFloat32Array(embedding)
         IN  IF ~vector.ok THEN [ok |-> FALSE, entry |-> <<>>]
             ELSE [ok |-> TRUE,
                   entry |-> [path |-> parserNormalizePath(path.s), vector |-> vector.vector]]

\* the loop of VectorSearchParser.parse over obj.vectors
RECURSIVE vectorSearchItems(_, _, _)
vectorSearchItems(vectors, i, acc) ==
    IF i > Len(vectors) THEN acc
    ELSE LET item == vectors[i]
             e == IF ~isNonNullObject(item) THEN [ok |-> FALSE, entry |-> <<>>]
                  ELSE itemEntry(getKey(item, Str_path), getKey(item, Str_embedding))
         IN  vectorSearchItems(vectors, i + 1,
                 IF e.ok THEN [acc EXCEPT !.entries = Append(@, e.entry)]
                 ELSE [acc EXCEPT !.errorCount = @ + 1])

\* VectorSearchParser.parse
VectorSearchParser_parse(data) ==
    IF ~isPlainObject(data) THEN NullResult
    ELSE IF ~hasKey(data, Str_vectors) \/ getKey(data, Str_vectors).t # "array" THEN NullResult
    ELSE LET vectors == getKey(data, Str_vectors).a
         IN  IF Len(vectors) = 0 THEN ParseResult(<<>>, 0, "Vector-search format (empty)", 0)
             ELSE IF ~isNonNullObject(vectors[1]) THEN NullResult
             ELSE IF ~hasKey(vectors[1], Str_path) \/ ~hasKey(vectors[1], Str_embedding)
                  THEN NullResult
             ELSE LET r == vectorSearchItems(vectors, 1, [entries |-> <<>>, errorCount |-> 0])
                  IN  IF Len(r.entries) = 0 THEN NullResult
                      ELSE ParseResult(r.entries, r.errorCount, "Vector-search format",
                                       Len(vectors))

\* PATH_KEYS of arrayParser
PATH_KEYS == << <<"p", "a", "t", "h">>, <<"f", "i", "l", "e">>,
               <<"f", "i", "l", "e", "p", "a", "t", "h">>,
               <<"f", "i", "l", "e", "P", "a", "t", "h">>,
               <<"n", "o", "t", "e", "P", "a", "t", "h">>,
               <<"n", "o", "t", "e", "_", "p", "a", "t", "h">>,
               <<"n", "a", "m", "e">> >>

\* EMBEDDING_KEYS of arrayParser
EMBEDDING_KEYS == << <<"e", "m", "b", "e", "d", "d", "i", "n", "g">>,
                    <<"v", "e", "c", "t", "o", "r">>,
                    <<"v", "a", "l", "u", "e", "s">>,
                    <<"e", "m", "b", "e", "d", "d", "i", "n", "g", "s">>,
                    <<"v", "e", "c">>, <<"e", "m", "b">> >>

\* findValue: the value under the first of the keys the object has
findValue(obj, keys) ==
    LET present == {i \in 1..Len(keys) : hasKey(obj, keys[i])}
    IN  IF present = {} THEN JUndefined
        ELSE getKey(obj, keys[CHOOSE i \in present : \A j \in present : i <= j])

\* a manual mapping that was not supplied (config === undefined)
NoConfig == [given |-> FALSE, pathKey |-> <<>>, embeddingKey |-> <<>>]

ManualConfig(pathKey, embeddingKey) ==
    [given |-> TRUE, pathKey |-> pathKey, embeddingKey |-> embeddingKey]

\* the loop of ArrayParser.parse over data
RECURSIVE arrayItems(_, _, _, _, _)
arrayItems(data, pathKeys, embeddingKeys, i, acc) ==
    IF i > Len(data) THEN acc
    ELSE LET item == data[i]
             e == IF ~isNonNullObject(item) THEN [ok |-> FALSE, entry |-> <<>>]
                  ELSE itemEntry(findValue(item, pathKeys), findValue(item, embeddingKeys))
         IN  arrayItems(data, pathKeys, embeddingKeys, i + 1,
                 IF e.ok THEN [acc EXCEPT !.entries = Append(@, e.entry)]
                 ELSE [acc EXCEPT !.errorCount = @ + 1])

\* ArrayParser.parse; an empty configured key is falsy and falls back to the candidates
ArrayParser_parse(data, config) ==
    IF data.t # "array" THEN NullResult
    ELSE IF Len(data.a) = 0 THEN ParseResult(<<>>, 0, "Empty array", 0)
    ELSE IF ~isNonNullObject(data.a[1]) THEN NullResult
    ELSE LET pathKeys == IF config.given /\ Len(config.pathKey) > 0
                         THEN <<config.pathKey>> ELSE PATH_KEYS
             embeddingKeys == IF config.given /\ Len(config.embeddingKey) > 0
                              THEN <<config.embeddingKey>> ELSE EMBEDDING_KEYS
             r == arrayItems(data.a, pathKeys, embeddingKeys, 1,
                             [entries |-> <<>>, errorCount |-> 0])
         IN  IF Len(r.entries) = 0 /\ r.errorCount = Len(data.a) THEN NullResult
             ELSE ParseResult(r.entries, r.errorCount, "Array of objects", Len(data.a))

\* the loop of MapParser.parse over Object.entries(obj)
RECURSIVE mapItems(_, _, _)
mapItems(obj, i, acc) ==
    IF i > Len(obj.k) THEN acc
    ELSE LET vector == toFloat32Array(obj.a[i])
         IN  mapItems(obj, i + 1,
                 IF vector.ok
                 THEN [acc EXCEPT !.entries =
                          Append(@, [path |-> parserNormalizePath(obj.k[i]),
                                     vector |-> vector.vector])]
                 ELSE [acc EXCEPT !.errorCount = @ + 1])

\* MapParser.parse
MapParser_parse(data) ==
    IF ~isPlainObject(data) THEN NullResult
    ELSE IF Len(data.k) = 0 THEN ParseResult(<<>>, 0, "Empty map", 0)
    ELSE IF data.a[1].t # "array" THEN NullResult
    ELSE IF Len(data.a[1].a) = 0 \/ data.a[1].a[1].t # "number" THEN NullResult
    ELSE LET r == mapItems(data, 1, [entries |-> <<>>, errorCount |-> 0])
         IN  IF Len(r.entries) = 0 THEN NullResult
             ELSE ParseResult(r.entries, r.errorCount, "Map", Len(data.k))

\* autoParseEmbeddings accepting only a result that has entries
autoParseEmbeddings_requiresEntries(data) ==
    IF Len(VectorSearchParser_parse(data).entries) > 0 THEN VectorSearchParser_parse(data)
    ELSE IF Len(ArrayParser_parse(data, NoConfig).entries) > 0
         THEN ArrayParser_parse(data, NoConfig)
    ELSE IF Len(MapParser_parse(data).entries) > 0 THEN MapParser_parse(data)
    ELSE NullResult

\* autoParseEmbeddings: the first parser of PARSERS that accepts the data
autoParseEmbeddings(data) ==
    IF VectorSearchParser_parse(data).ok THEN VectorSearchParser_parse(data)
    ELSE IF ArrayParser_parse(data, NoConfig).ok THEN ArrayParser_parse(data, NoConfig)
    ELSE MapParser_parse(data)

\* parseWithManualMapping: the array parser with the mapping, then the map parser
parseWithManualMapping(data, config) ==
    IF ArrayParser_parse(data, config).ok THEN ArrayParser_parse(data, config)
    ELSE MapParser_parse(data)

(***************************************************************************)
(* State                                                                   *)
(***************************************************************************)
VARIABLES
    pathIndex,          \* EmbeddingsIndex.pathIndex: lookup key -> normalized vector
    entries,            \* EmbeddingsIndex.entries: sequence of [path, normalizedVector]
                        \* where a vector is the instance [id, values]
    loaded,             \* EmbeddingsIndex.loaded
    entryCount,         \* EmbeddingsIndex.entryCount
    formatDescription,  \* EmbeddingsIndex.formatDescription
    lastFilePath,       \* EmbeddingsIndex.lastFilePath
    lastModifiedTime,   \* EmbeddingsIndex.lastModifiedTime
    calls,              \* the loadFromFile calls in flight: where each is suspended
    lastLoad,           \* how the loadFromFile call that settled last settled
    lastRead,           \* what the loadFromFile call that settled last read and parsed
    statFloor,          \* the oldest modification time recorded by a load whose
                        \* records the index holds
    fileMtime,          \* the modification time of the embeddings file
    reload,             \* the needsReload call in flight and what it returned
    cmd,                \* the update command in flight: where it is suspended
    search,             \* the findNearest call whose return value the caller holds
    lookup,             \* the getVectorForFile call whose return value the caller holds
    related,            \* what updateRelatedLinksForFile computed for the note
    original,           \* the note text before the first managed-block operation
    content,            \* the note text
    lastBlock,          \* the block text of the last updateManagedBlock call
    lastRender,         \* the arguments of the last generateManagedBlock call
    lastOp              \* the last managed-block operation applied to the note

indexVars == <<pathIndex, entries, loaded, entryCount, formatDescription,
               lastFilePath, lastModifiedTime>>

noteVars == <<original, content, lastBlock, lastRender, lastOp>>

\* what is remembered of the loads that settled
loadGhosts == <<lastLoad, lastRead, statFloor>>

\* the file system and the callers around the index
envVars == <<fileMtime, reload, cmd>>

vars == <<pathIndex, entries, loaded, entryCount, formatDescription,
          lastFilePath, lastModifiedTime, calls, lastLoad, lastRead, statFloor,
          fileMtime, reload, cmd, search, lookup, related,
          original, content, lastBlock, lastRender, lastOp>>

(***************************************************************************)
(* EmbeddingsIndex                                                         *)
(***************************************************************************)
\* a map that keeps the value a key already has
mapSet_keepExisting(m, key, value) ==
    [x \in (DOMAIN m) \cup {key} |-> IF x \in DOMAIN m THEN m[x] ELSE value]

\* Map.prototype.set on a map held as a function
mapSet(m, key, value) ==
    [x \in (DOMAIN m) \cup {key} |-> IF x = key THEN value ELSE m[x]]

Str_md == <<".", "m", "d">>

\* normalizePath without the case folding
normalizePath_caseSensitive(path) == replaceBackslashes(path)

\* EmbeddingsIndex.normalizePath: separators replaced, then lower-cased
normalizePath(path) == toLowerCase(replaceBackslashes(path))

\* EmbeddingsIndex.addPathVariants
addPathVariants(index, path, vector) ==
    LET i1 == mapSet(index, path, vector)
        i2 == IF endsWith(path, Str_md)
              THEN mapSet(i1, substringTo(path, Len(path) - 3), vector) ELSE i1
        lowerPath == toLowerCase(path)
        i3 == IF lowerPath # path THEN mapSet(i2, lowerPath, vector) ELSE i2
        i4 == IF lowerPath # path /\ endsWith(lowerPath, Str_md)
              THEN mapSet(i3, substringTo(lowerPath, Len(lowerPath) - 3), vector) ELSE i3
    IN  i4

\* the loop of EmbeddingsIndex.buildIndex: acc is [pathIndex, entries]
RECURSIVE buildIndexLoop(_, _, _)
buildIndexLoop(parsed, i, acc) ==
    IF i > Len(parsed) THEN acc
    ELSE LET normalizedVec == [id |-> Len(acc.entries) + 1,
                               values |-> normalize(parsed[i].vector)]
         IN  buildIndexLoop(parsed, i + 1,
                 [pathIndex |-> addPathVariants(acc.pathIndex, parsed[i].path, normalizedVec),
                  entries |-> Append(acc.entries,
                                     [path |-> parsed[i].path,
                                      normalizedVector |-> normalizedVec])])

\* isInExcludedFolder comparing the folder as the caller wrote it
isInExcludedFolder_asWritten(path, excludeFolders) ==
    LET normalizedPath == toLowerCase(normalizePath(path))
    IN  \E i \in 1..Len(excludeFolders) :
            \/ startsWith(normalizedPath, excludeFolders[i] \o <<"/">>)
            \/ normalizedPath = excludeFolders[i]

\* EmbeddingsIndex.isInExcludedFolder
isInExcludedFolder(path, excludeFolders) ==
    LET normalizedPath == toLowerCase(normalizePath(path))
    IN  \E i \in 1..Len(excludeFolders) :
            LET normalizedFolder == toLowerCase(replaceBackslashes(excludeFolders[i]))
            IN  \/ startsWith(normalizedPath, normalizedFolder \o <<"/">>)
                \/ normalizedPath = normalizedFolder

\* excludePathSet.has(normalizedEntryPath) of findNearest
isExcludedPath(path, excludePaths) ==
    \E i \in 1..Len(excludePaths) : normalizePath(excludePaths[i]) = normalizePath(path)

\* the threshold test with the comparison reversed
passesThreshold_reversed(score, threshold) == score <= threshold

\* score >= threshold of findNearest
passesThreshold(score, threshold) == score >= threshold

\* the scan loop of findNearest; acc is [threw, results]
RECURSIVE scanEntries(_, _, _, _, _)
scanEntries(es, normalizedQuery, options, i, acc) ==
    IF i > Len(es) \/ acc.threw THEN acc
    ELSE IF isExcludedPath(es[i].path, options.excludePaths)
         THEN scanEntries(es, normalizedQuery, options, i + 1, acc)
    ELSE IF isInExcludedFolder(es[i].path, options.excludeFolders)
         THEN scanEntries(es, normalizedQuery, options, i + 1, acc)
    ELSE LET score == cosineSimilarityNormalized(normalizedQuery, es[i].normalizedVector.values)
         IN  IF score.threw
             THEN [threw |-> TRUE, results |-> <<>>]
             ELSE scanEntries(es, normalizedQuery, options, i + 1,
                      IF passesThreshold(score.value, options.threshold)
                      THEN [acc EXCEPT !.results =
                               Append(@, [path |-> es[i].path, score |-> score.value])]
                      ELSE acc)

\* the deduplication test keeping the lower score
replacesBest_lower(result, existing) == result.score < existing.score

\* whether the deduplication loop stores result over the existing best of its path
replacesBest(result, existing) == result.score > existing.score

\* the deduplication loop of findNearest; best is bestByPath as a sequence of
\* [key, value] in the insertion order of the keys (the order of Map.values())
RECURSIVE bestByPathLoop(_, _, _)
bestByPathLoop(results, i, best) ==
    IF i > Len(results) THEN best
    ELSE LET key == normalizePath(results[i].path)
             at == {j \in 1..Len(best) : best[j].key = key}
         IN  bestByPathLoop(results, i + 1,
                 IF at = {} THEN Append(best, [key |-> key, value |-> results[i]])
                 ELSE LET j == CHOOSE x \in at : TRUE
                      IN  IF replacesBest(results[i], best[j].value)
                          THEN [best EXCEPT ![j].value = results[i]]
                          ELSE best)

\* the sort with the comparator reversed (a.score - b.score)
insertByScore_ascending(sorted, x) ==
    LET before == {j \in 1..Len(sorted) : sorted[j].score <= x.score}
        n == IF before = {} THEN 0 ELSE CHOOSE j \in before : \A h \in before : h <= j
    IN  SubSeq(sorted, 1, n) \o <<x>> \o SubSeq(sorted, n + 1, Len(sorted))

\* where sort places x among the already sorted: after every element that does
\* not compare greater (b.score - a.score, stable)
insertByScore(sorted, x) ==
    LET before == {j \in 1..Len(sorted) : sorted[j].score >= x.score}
        n == IF before = {} THEN 0 ELSE CHOOSE j \in before : \A h \in before : h <= j
    IN  SubSeq(sorted, 1, n) \o <<x>> \o SubSeq(sorted, n + 1, Len(sorted))

\* deduplicated.sort((a, b) => b.score - a.score)
RECURSIVE sortByScore(_, _, _)
sortByScore(list, i, sorted) ==
    IF i > Len(list) THEN sorted
    ELSE sortByScore(list, i + 1, insertByScore(sorted, list[i]))

\* the slice taking one element too many
sliceTopK_offByOne(list, k) ==
    LET end == IF k < 0
               THEN (IF Len(list) + k < 0 THEN 0 ELSE Len(list) + k)
               ELSE (IF k + 1 > Len(list) THEN Len(list) ELSE k + 1)
    IN  SubSeq(list, 1, end)

\* Array.prototype.slice(0, k): a negative k counts from the end
sliceTopK(list, k) ==
    LET end == IF k < 0
               THEN (IF Len(list) + k < 0 THEN 0 ELSE Len(list) + k)
               ELSE (IF k > Len(list) THEN Len(list) ELSE k)
    IN  SubSeq(list, 1, end)

\* findNearest raising an error when the index is not loaded
notLoadedResult_throws == [threw |-> TRUE, results |-> <<>>]

\* what findNearest does when the index is not loaded: return []
notLoadedResult == [threw |-> FALSE, results |-> <<>>]

\* EmbeddingsIndex.findNearest: [threw, results]
findNearest(queryVector, options) ==
    IF ~loaded THEN notLoadedResult
    ELSE LET normalizedQuery == normalize(queryVector)
             scanned == scanEntries(entries, normalizedQuery, options, 1,
                                    [threw |-> FALSE, results |-> <<>>])
         IN  IF scanned.threw THEN [threw |-> TRUE, results |-> <<>>]
             ELSE LET best == bestByPathLoop(scanned.results, 1, <<>>)
                      deduplicated == [j \in 1..Len(best) |-> best[j].value]
                      sorted == sortByScore(deduplicated, 1, <<>>)
                  IN  [threw |-> FALSE, results |-> sliceTopK(sorted, options.k)]

\* the keys of getVectorForFile without the lower-cased ones
lookupKeys_noLowerCase(filePath) ==
    LET normalized == replaceBackslashes(filePath)
        basename == lastSegment(normalized)
    IN  <<filePath, normalized>>
        \o (IF endsWith(normalized, Str_md)
            THEN <<substringTo(normalized, Len(normalized) - 3)>> ELSE <<>>)
        \o <<basename>>
        \o (IF endsWith(basename, Str_md)
            THEN <<substringTo(basename, Len(basename) - 3)>> ELSE <<>>)

\* the keys getVectorForFile looks up, in the order it tries them; basename is
\* EmbeddingsIndex.getBasename of the normalized path
lookupKeys(filePath) ==
    LET normalized == replaceBackslashes(filePath)
        lower == toLowerCase(normalized)
        basename == lastSegment(normalized)
    IN  <<filePath, normalized>>
        \o (IF endsWith(normalized, Str_md)
            THEN <<substringTo(normalized, Len(normalized) - 3)>> ELSE <<>>)
        \o <<lower>>
        \o (IF endsWith(lower, Str_md)
            THEN <<substringTo(lower, Len(lower) - 3)>> ELSE <<>>)
        \o <<basename>>
        \o (IF endsWith(basename, Str_md)
            THEN <<substringTo(basename, Len(basename) - 3)>> ELSE <<>>)

\* the return value null of getVectorForFile
NoVector == [found |-> FALSE, vector |-> [id |-> 0, values |-> <<>>]]

\* EmbeddingsIndex.getVectorForFile: the vector of the first key that is in the
\* lookup; found = FALSE stands for null
getVectorForFile(filePath) ==
    LET keys == lookupKeys(filePath)
        hits == {i \in 1..Len(keys) : keys[i] \in DOMAIN pathIndex}
    IN  IF hits = {} THEN NoVector
        ELSE [found |-> TRUE,
              vector |-> pathIndex[keys[CHOOSE i \in hits : \A j \in hits : i <= j]]]

(***************************************************************************)
(* Managed block (links/managedBlock)                                      *)
(***************************************************************************)
BLOCK_START_MARKER ==
    <<"<", "!", "-", "-", " ", "a", "u", "t", "o", "-", "r", "e", "l", "a", "t", "e", "d",
      ":", "s", "t", "a", "r", "t", " ", "-", "-", ">">>

BLOCK_END_MARKER ==
    <<"<", "!", "-", "-", " ", "a", "u", "t", "o", "-", "r", "e", "l", "a", "t", "e", "d",
      ":", "e", "n", "d", " ", "-", "-", ">">>

Str_placeholder ==
    <<"*", "N", "o", " ", "r", "e", "l", "a", "t", "e", "d", " ", "n", "o", "t", "e", "s",
      " ", "f", "o", "u", "n", "d", "*">>

Digits == <<"0", "1", "2", "3", "4", "5", "6", "7", "8", "9">>

\* the decimal digits of a natural number
RECURSIVE decimal(_)
decimal(n) ==
    IF n < 10 THEN <<Digits[n + 1]>>
    ELSE decimal(n \div 10) \o <<Digits[(n % 10) + 1]>>

\* Number.prototype.toFixed(3) of the fixed-point number n / Scale
toFixed3(n) ==
    LET m == IF n < 0 THEN -n ELSE n
        frac == m % Scale
    IN  (IF n < 0 THEN <<"-">> ELSE <<>>)
        \o decimal(m \div Scale) \o <<".">>
        \o <<Digits[(frac \div 100) + 1], Digits[((frac \div 10) % 10) + 1],
             Digits[(frac % 10) + 1]>>

\* getBasename of managedBlock
getBasename(path) == lastSegment(path)

\* getNoteName: the basename without a trailing .md
getNoteName(path) ==
    LET name == getBasename(path)
    IN  IF endsWith(name, Str_md) THEN substringTo(name, Len(name) - 3) ELSE name

\* the line generateManagedBlock writes for one note
linkLine(note, options) ==
    LET link == IF options.usePathLinks
                THEN <<"[", "[">> \o note.path \o <<"]", "]">>
                ELSE <<"[", "[">> \o note.path \o <<"|">> \o getNoteName(note.path)
                     \o <<"]", "]">>
        line == <<"-", " ">> \o link
    IN  IF options.showScores
        THEN line \o <<" ", "(">> \o toFixed3(note.score) \o <<")">>
        ELSE line

\* the lines of generateManagedBlock with the notes in reverse order
blockLines_reversed(relatedNotes, options) ==
    <<BLOCK_START_MARKER, options.heading>>
    \o (IF Len(relatedNotes) = 0 THEN <<Str_placeholder>>
        ELSE [i \in 1..Len(relatedNotes) |->
                 linkLine(relatedNotes[Len(relatedNotes) + 1 - i], options)])
    \o <<BLOCK_END_MARKER>>

\* the lines generateManagedBlock collects before joining them
blockLines(relatedNotes, options) ==
    <<BLOCK_START_MARKER, options.heading>>
    \o (IF Len(relatedNotes) = 0 THEN <<Str_placeholder>>
        ELSE [i \in 1..Len(relatedNotes) |-> linkLine(relatedNotes[i], options)])
    \o <<BLOCK_END_MARKER>>

\* generateManagedBlock
generateManagedBlock(relatedNotes, options) == joinLines(blockLines(relatedNotes, options))

\* findManagedBlock searching the end marker from the start of the text
findManagedBlock_endFromZero(text) ==
    LET startIndex == indexOf(text, BLOCK_START_MARKER, 0)
    IN  IF startIndex = -1 THEN [found |-> FALSE, startIndex |-> 0, endIndex |-> 0]
        ELSE LET endIndex == indexOf(text, BLOCK_END_MARKER, 0)
             IN  IF endIndex = -1 THEN [found |-> FALSE, startIndex |-> 0, endIndex |-> 0]
                 ELSE [found |-> TRUE, startIndex |-> startIndex,
                       endIndex |-> endIndex + Len(BLOCK_END_MARKER)]

\* findManagedBlock: found = FALSE stands for null
findManagedBlock(text) ==
    LET startIndex == indexOf(text, BLOCK_START_MARKER, 0)
    IN  IF startIndex = -1 THEN [found |-> FALSE, startIndex |-> 0, endIndex |-> 0]
        ELSE LET endIndex == indexOf(text, BLOCK_END_MARKER, startIndex)
             IN  IF endIndex = -1 THEN [found |-> FALSE, startIndex |-> 0, endIndex |-> 0]
                 ELSE [found |-> TRUE, startIndex |-> startIndex,
                       endIndex |-> endIndex + Len(BLOCK_END_MARKER)]

\* updateManagedBlock appending the block also when the text has one
updateManagedBlock_alwaysAppend(text, newBlock) ==
    LET trimmedContent == trimEnd(text)
    IN  IF Len(trimmedContent) = 0 THEN newBlock \o <<"\n">>
        ELSE trimmedContent \o <<"\n", "\n">> \o newBlock \o <<"\n">>

\* updateManagedBlock without the trimming of the text around the block
updateManagedBlock_noTrim(text, newBlock) ==
    LET existingBlock == findManagedBlock(text)
    IN  IF existingBlock.found
        THEN LET before == substringTo(text, existingBlock.startIndex)
                 after == substringFrom(text, existingBlock.endIndex)
             IN  before
                 \o (IF Len(before) > 0 THEN <<"\n", "\n">> ELSE <<>>)
                 \o newBlock
                 \o (IF Len(after) > 0 THEN <<"\n", "\n">> \o after ELSE <<"\n">>)
        ELSE LET trimmedContent == trimEnd(text)
             IN  IF Len(trimmedContent) = 0 THEN newBlock \o <<"\n">>
                 ELSE trimmedContent \o <<"\n", "\n">> \o newBlock \o <<"\n">>

\* updateManagedBlock
updateManagedBlock(text, newBlock) ==
    LET existingBlock == findManagedBlock(text)
    IN  IF existingBlock.found
        THEN LET before == substringTo(text, existingBlock.startIndex)
                 after == substringFrom(text, existingBlock.endIndex)
                 cleanBefore == trimEnd(before)
                 cleanAfter == trimStart(after)
             IN  cleanBefore
                 \o (IF Len(cleanBefore) > 0 THEN <<"\n", "\n">> ELSE <<>>)
                 \o newBlock
                 \o (IF Len(cleanAfter) > 0 THEN <<"\n", "\n">> \o cleanAfter ELSE <<"\n">>)
        ELSE LET trimmedContent == trimEnd(text)
             IN  IF Len(trimmedContent) = 0 THEN newBlock \o <<"\n">>
                 ELSE trimmedContent \o <<"\n", "\n">> \o newBlock \o <<"\n">>

\* removeManagedBlock joining the two sides with a single line break
removeManagedBlock_singleNewline(text) ==
    LET existingBlock == findManagedBlock(text)
    IN  IF ~existingBlock.found THEN text
        ELSE LET before == trimEnd(substringTo(text, existingBlock.startIndex))
                 after == trimStart(substringFrom(text, existingBlock.endIndex))
             IN  IF Len(before) = 0 THEN after
                 ELSE IF Len(after) = 0 THEN before \o <<"\n">>
                 ELSE before \o <<"\n">> \o after

\* removeManagedBlock
removeManagedBlock(text) ==
    LET existingBlock == findManagedBlock(text)
    IN  IF ~existingBlock.found THEN text
        ELSE LET before == trimEnd(substringTo(text, existingBlock.startIndex))
                 after == trimStart(substringFrom(text, existingBlock.endIndex))
             IN  IF Len(before) = 0 THEN after
                 ELSE IF Len(after) = 0 THEN before \o <<"\n">>
                 ELSE before \o <<"\n", "\n">> \o after

(***************************************************************************)
(* Plugin (main)                                                           *)
(***************************************************************************)
\* SmartLinkerPlugin.ensureMdExtension
ensureMdExtension(path) == IF ~endsWith(path, Str_md) THEN path \o Str_md ELSE path

\* SmartLinkerPlugin.fileExists: the vault holds a file at exactly this path
fileExists(path, vault) == path \in vault

\* the loop of updateRelatedLinksForFile over the search results: the results
\* whose completed path exists, until topK of them are collected
RECURSIVE relatedNotesLoop(_, _, _, _, _)
relatedNotesLoop(results, i, relatedNotes, topK, vault) ==
    IF i > Len(results) THEN relatedNotes
    ELSE LET notePath == ensureMdExtension(results[i].path)
         IN  IF fileExists(notePath, vault)
             THEN LET pushed == Append(relatedNotes,
                                       [path |-> notePath, score |-> results[i].score])
                  IN  IF Len(pushed) >= topK THEN pushed
                      ELSE relatedNotesLoop(results, i + 1, pushed, topK, vault)
             ELSE relatedNotesLoop(results, i + 1, relatedNotes, topK, vault)

(***************************************************************************)
(* Inputs                                                                  *)
(***************************************************************************)
\* what readFile returns: null for a missing file, else text that JSON.parse
\* rejects or decodes
FileMissing == [kind |-> "missing", data |-> JNull]

FileInvalidJson == [kind |-> "invalid", data |-> JNull]

FileJson(data) == [kind |-> "json", data |-> data]

\* a number of a JSON file, written in thousandths
Vec(v) == JArr([i \in 1..Len(v) |-> JNum(v[i])])

Record(pathKey, path, embeddingKey, v) ==
    JObj(<<pathKey, embeddingKey>>, <<JStr(path), Vec(v)>>)

Path_a_md == <<"a", ".", "m", "d">>

Path_b_md == <<"b", ".", "m", "d">>

Path_a_chunk2 == <<"a", ".", "m", "d", "#", "c", "h", "u", "n", "k", "2">>

\* {"vectors":[{"path":"a.md","embedding":[1,0]},{"path":"b.md","embedding":[0.9,0.1]},
\*             {"path":"a.md#chunk2","embedding":[0.99,0]}]}
FileScenario ==
    FileJson(JObj(<<Str_vectors>>,
        <<JArr(<<Record(Str_path, Path_a_md, Str_embedding, <<1000, 0>>),
                 Record(Str_path, Path_b_md, Str_embedding, <<900, 100>>),
                 Record(Str_path, Path_a_chunk2, Str_embedding, <<990, 0>>)>>)>>))

\* an array of records: two spellings of one note, a folder name, a folder with
\* a longer name, a nested note, a record without a string path
FileFolders ==
    FileJson(JArr(<<
        Record(Str_path, <<"T", "/", "a", ".", "m", "d">>, Str_embedding, <<1000, 0>>),
        Record(Str_path, <<"t", "\\", "A", ".", "m", "d">>, Str_embedding, <<800, 600>>),
        Record(Str_path, <<"/", "T">>, Str_embedding, <<600, 800>>),
        JObj(<<Str_path, Str_embedding>>, <<JNum(5), Vec(<<1000, 0>>)>>),
        Record(Str_path, <<"T", "x", "/", "c", ".", "m", "d">>, Str_embedding, <<0, 1000>>),
        Record(Str_path, <<"T", "/", "s", "/", "d", ".", "m", "d">>, Str_embedding,
               <<-1000, 0>>),
        Record(Str_path, Path_b_md, Str_embedding, <<300, 400>>)>>))

\* {"x":[1,0,0],"y":[0,1,0]}
FileMap ==
    FileJson(JObj(<< <<"x">>, <<"y">> >>, <<Vec(<<1000, 0, 0>>), Vec(<<0, 1000, 0>>)>>))

Path_b == <<"b">>

Path_N_C_MD == <<"N", "/", "C", ".", "M", "D">>

\* {"a.md":[1,0],"b":[0.9,0.1],"b.md":[0.8,0.2],"N/C.MD":[0.7,0.3]}
FileNotes ==
    FileJson(JObj(<<Path_a_md, Path_b, Path_b_md, Path_N_C_MD>>,
                  <<Vec(<<1000, 0>>), Vec(<<900, 100>>), Vec(<<800, 200>>),
                    Vec(<<700, 300>>)>>))

Str_file == <<"f", "i", "l", "e">>

Str_vector == <<"v", "e", "c", "t", "o", "r">>

\* the elements of the arrays that are parsed: a number, a record, a record
\* under other candidate keys whose path has a backslash and a trailing slash,
\* a record with an empty path, a record whose embedding is not numeric, a
\* record whose path starts with two slashes, a record whose path is under
\* the empty key
ParseItems ==
    {JNum(5),
     Record(Str_path, Path_a_md, Str_embedding, <<1000, 0>>),
     Record(Str_file, <<"b", "\\", "c", "/">>, Str_vector, <<0, 1000>>),
     Record(Str_path, <<>>, Str_embedding, <<1000, 0>>),
     JObj(<<Str_path, Str_embedding>>, <<JStr(<<"c">>), JArr(<<JStr(<<"x">>)>>)>>),
     Record(Str_path, <<"/", "/", "d">>, Str_embedding, <<600, 800>>),
     Record(<<>>, <<"e">>, Str_embedding, <<800, 600>>)}

\* the number of elements of the longest array that is parsed
MaxItems == 2

ParseArrays == UNION {[1..n -> ParseItems] : n \in 0..MaxItems}

\* the properties of the maps that are parsed
ParsePairs ==
    {[key |-> Path_a_md, value |-> Vec(<<1000, 0>>)],
     [key |-> <<"/", "x", "/">>, value |-> Vec(<<0, 1000>>)],
     [key |-> <<"\\", "\\", "s", "\\", "y">>, value |-> Vec(<<600, 800>>)],
     [key |-> <<"n">>, value |-> JNum(5)],
     [key |-> <<"e">>, value |-> JArr(<<>>)]}

ParseMaps ==
    {JObj([i \in 1..Len(m) |-> m[i].key], [i \in 1..Len(m) |-> m[i].value]) :
        m \in {x \in UNION {[1..n -> ParsePairs] : n \in 0..MaxItems} :
                  \A i, j \in 1..Len(x) : i # j => x[i].key # x[j].key}}

\* the decoded content of the files that are parsed
ParseData ==
    {JNull, JNum(5), JStr(<<"a">>)}
    \cup {JArr(a) : a \in ParseArrays}
    \cup {JObj(<<Str_vectors>>, <<JArr(a)>>) : a \in ParseArrays}
    \cup ParseMaps

ParseFiles == {FileMissing, FileInvalidJson} \cup {FileJson(data) : data \in ParseData}

\* settings.jsonFormatMode with the manual mapping passed to loadFromFile
ParseModes ==
    {[mode |-> "auto", config |-> NoConfig],
     [mode |-> "manual", config |-> NoConfig],
     [mode |-> "manual", config |-> ManualConfig(Str_path, Str_embedding)],
     [mode |-> "manual", config |-> ManualConfig(Str_file, Str_vector)],
     [mode |-> "manual", config |-> ManualConfig(<<>>, Str_embedding)]}

\* the latest modification time of the embeddings file
MaxMtime == 3

\* settings.embeddingsPath
EmbeddingsPath == <<"e", "m", "b", ".", "j", "s", "o", "n">>

\* the paths needsReload is asked about
ReloadPaths == {EmbeddingsPath, <<"o">>}

ReloadFiles == {FileInvalidJson, FileMap}

SearchFiles == {FileMissing, FileInvalidJson, FileScenario, FileFolders, FileMap}

SearchQueries == {<<1000, 0>>, <<300, 400>>, <<1000, 0, 0>>}

SearchKs == {-1, 0, 1, 2, 5}

SearchThresholds == {-2 * Scale, 500, 990, 2 * Scale}

SearchExcludePaths ==
    {<<>>, <<Path_a_md>>, <<<<"T", "\\", "A", ".", "M", "D">>>>,
     <<Path_b_md, <<"t", "/", "a", ".", "m", "d">>>>}

SearchExcludeFolders ==
    {<<>>, <<<<"t">>>>, <<<<"T", "/">>>>, <<<<"T", "x">>, <<"t", "\\", "S">>>>}

SearchOptions ==
    [k : SearchKs, threshold : SearchThresholds,
     excludePaths : SearchExcludePaths, excludeFolders : SearchExcludeFolders]

LookupFiles == {FileMissing, FileInvalidJson, FileFolders, FileNotes}

\* the paths getVectorForFile is asked for
LookupQueries ==
    {<<"T", "/", "a", ".", "m", "d">>, <<"t", "\\", "a", ".", "M", "D">>,
     <<"T", "\\", "A">>, <<"z", "z", "/", "b", ".", "m", "d">>, <<"z", "z", "\\", "b">>,
     <<"N", "/", "c">>, <<"q", ".", "m", "d">>, <<"B", ".", "M", "D">>,
     <<"z", "z", "/", "B", ".", "m", "d">>}

\* the files of the vault
Path_x_md == <<"x", ".", "m", "d">>

VaultFiles == {Path_a_md, Path_b_md, Path_x_md, <<"T", "/", "a", ".", "m", "d">>}

\* the notes the update command is run on
CommandNotes == {Path_a_md, Path_b_md, Path_x_md, <<"q", ".", "m", "d">>}

CommandFiles == {FileMissing, FileScenario, FileNotes, FileMap}

\* {"a.md":[1,0],"b.md":[0.8,0.6],"m.md":[1,0,0]}: vectors of two lengths
FileMixed ==
    FileJson(JObj(<<Path_a_md, Path_b_md, <<"m", ".", "m", "d">>>>,
                  <<Vec(<<1000, 0>>), Vec(<<800, 600>>), Vec(<<1000, 0, 0>>)>>))

\* the content of the embeddings file while the update command runs
UpdateFiles == {FileInvalidJson, FileNotes, FileMixed}

\* the notes the update command is run on, one of them without embedding
UpdateNotes == {Path_a_md, <<"q", ".", "m", "d">>}

\* the texts the user leaves in the note
EditedNotes == {<<>>, <<"x">>}

Str_heading == <<"#", "#", " ", "R", "e", "l", "a", "t", "e", "d">>

\* the settings of the plugin: topK within the limits of its slider
CommandSettings ==
    [topK : {1, 2}, similarityThreshold : {500}, excludedFolders : {<<>>},
     blockHeading : {Str_heading}, showSimilarityScore : {FALSE},
     usePathLinks : {TRUE}]

\* the settings of the plugin, with and without embeddings path
UpdateSettings ==
    [embeddingsPath : {<<>>, EmbeddingsPath}, jsonFormatMode : {"auto"},
     manualPathKey : {Str_path}, manualEmbeddingKey : {Str_embedding}, topK : {2},
     similarityThreshold : {500}, excludedFolders : {<<>>},
     blockHeading : {Str_heading}, showSimilarityScore : {FALSE},
     usePathLinks : {TRUE}]

\* the callers of loadFromFile: the startup timer and a command
Callers == {"startup", "command"}

IdleCall == [pc |-> "idle", filePath |-> <<>>, mode |-> "auto", config |-> NoConfig,
             mtime |-> 0]

NoSearch == [called |-> FALSE, queryVector |-> <<>>,
             options |-> [k |-> 0, threshold |-> 0, excludePaths |-> <<>>,
                          excludeFolders |-> <<>>],
             threw |-> FALSE, results |-> <<>>]

NoLookup == [called |-> FALSE, filePath |-> <<>>, found |-> FALSE,
             vector |-> NoVector.vector]

NoRelated == [called |-> FALSE, file |-> <<>>, topK |-> 0, found |-> FALSE,
              vector |-> NoVector.vector, threw |-> FALSE, results |-> <<>>,
              relatedNotes |-> <<>>,
              options |-> [heading |-> <<>>, showScores |-> FALSE, usePathLinks |-> FALSE],
              newBlock |-> <<>>]

NoRender == [called |-> FALSE, relatedNotes |-> <<>>,
             options |-> [heading |-> <<>>, showScores |-> FALSE, usePathLinks |-> FALSE]]

NoRead == [called |-> FALSE, file |-> FileMissing, mode |-> "auto", config |-> NoConfig,
           result |-> NullResult]

NoReload == [pc |-> "idle", filePath |-> <<>>, result |-> FALSE]

\* the settings of a plugin that was not configured
NoSettings ==
    [embeddingsPath |-> <<>>, jsonFormatMode |-> "auto", manualPathKey |-> <<>>,
     manualEmbeddingKey |-> <<>>, topK |-> 0,
     similarityThreshold |-> 0, excludedFolders |-> <<>>, blockHeading |-> <<>>,
     showSimilarityScore |-> FALSE, usePathLinks |-> FALSE]

NoCommand == [pc |-> "idle", file |-> <<>>, settings |-> NoSettings, outcome |-> "none",
              currentContent |-> <<>>, newContent |-> <<>>]

\* a caller holds a return value of the index and has not yet reached an await
Busy == search.called \/ lookup.called \/ cmd.pc = "ensured"

(***************************************************************************)
(* Initial states                                                          *)
(***************************************************************************)
\* the fields of a new EmbeddingsIndex
InitIndex ==
    /\ pathIndex = <<>>
    /\ entries = <<>>
    /\ loaded = FALSE
    /\ entryCount = 0
    /\ formatDescription = [kind |-> "", n |-> 0]
    /\ lastFilePath = <<>>
    /\ lastModifiedTime = 0
    /\ calls = [c \in Callers |-> IdleCall]
    /\ lastLoad = "none"
    /\ lastRead = NoRead
    /\ statFloor = 0
    /\ fileMtime = 1
    /\ reload = NoReload
    /\ cmd = NoCommand
    /\ search = NoSearch
    /\ lookup = NoLookup
    /\ related = NoRelated

InitNote(text) ==
    /\ original = text
    /\ content = text
    /\ lastBlock = <<>>
    /\ lastRender = NoRender
    /\ lastOp = "none"

(***************************************************************************)
(* Actions of the index                                                    *)
(***************************************************************************)
\* EmbeddingsIndex.clear
clear ==
    /\ pathIndex' = <<>>
    /\ entries' = <<>>
    /\ loaded' = FALSE
    /\ entryCount' = 0
    /\ formatDescription' = [kind |-> "", n |-> 0]
    /\ lastFilePath' = <<>>
    /\ lastModifiedTime' = 0

\* onunload: the index is cleared
Unload ==
    /\ ~Busy
    /\ clear
    /\ statFloor' = 0
    /\ UNCHANGED <<calls, lastLoad, lastRead, envVars, search, lookup, related, noteVars>>

\* loadFromFile up to its first await: clear(), then the stat is requested
loadFromFileCall(c, filePath, mode, config) ==
    /\ calls[c].pc = "idle"
    /\ clear
    /\ calls' = [calls EXCEPT ![c] =
                    [pc |-> "stat", filePath |-> filePath, mode |-> mode,
                     config |-> config, mtime |-> 0]]
    /\ lastRead' = NoRead
    /\ statFloor' = 0
    /\ UNCHANGED lastLoad

\* a caller other than the update command calls loadFromFile
LoadCall(c, filePath, mode, config) ==
    /\ ~Busy
    /\ loadFromFileCall(c, filePath, mode, config)
    /\ UNCHANGED <<envVars, search, lookup, related, noteVars>>

\* loadFromFile resumes with the modification time and requests the read
LoadStat(c, mtime) ==
    /\ ~Busy
    /\ calls[c].pc = "stat"
    /\ calls' = [calls EXCEPT ![c].pc = "read", ![c].mtime = mtime]
    /\ UNCHANGED <<indexVars, loadGhosts, envVars, search, lookup, related, noteVars>>

\* the parse step of loadFromFile
parseFile(file, mode, config) ==
    IF file.kind # "json" THEN NullResult
    ELSE IF mode = "auto" THEN autoParseEmbeddings(file.data)
    ELSE parseWithManualMapping(file.data,
             IF config.given THEN config ELSE ManualConfig(Str_path, Str_embedding))

\* loadFromFile resumes with the file content and throws: file not found,
\* invalid JSON or no parser accepts the data
loadFromFileThrows(c, file) ==
    /\ calls[c].pc = "read"
    /\ ~parseFile(file, calls[c].mode, calls[c].config).ok
    /\ calls' = [calls EXCEPT ![c] = IdleCall]
    /\ lastLoad' = "threw"
    /\ lastRead' = [called |-> TRUE, file |-> file, mode |-> calls[c].mode,
                    config |-> calls[c].config, result |-> NullResult]
    /\ UNCHANGED <<indexVars, statFloor>>

\* the loadFromFile of a caller other than the update command throws
LoadReadThrows(c, file) ==
    /\ ~Busy
    /\ loadFromFileThrows(c, file)
    /\ UNCHANGED <<envVars, search, lookup, related, noteVars>>

\* loadFromFile resumes with the file content and builds the index
loadFromFileBuilds(c, file) ==
    LET result == parseFile(file, calls[c].mode, calls[c].config)
        built == buildIndexLoop(result.entries, 1,
                                [pathIndex |-> pathIndex, entries |-> entries])
    IN  /\ calls[c].pc = "read"
        /\ result.ok
        /\ pathIndex' = built.pathIndex
        /\ entries' = built.entries
        /\ entryCount' = Len(result.entries)
        /\ formatDescription' = result.formatDescription
        /\ lastFilePath' = calls[c].filePath
        /\ lastModifiedTime' = calls[c].mtime
        /\ loaded' = TRUE
        /\ calls' = [calls EXCEPT ![c] = IdleCall]
        /\ lastLoad' = "ok"
        /\ lastRead' = [called |-> TRUE, file |-> file, mode |-> calls[c].mode,
                        config |-> calls[c].config, result |-> result]
        /\ statFloor' = IF loaded /\ statFloor < calls[c].mtime
                        THEN statFloor ELSE calls[c].mtime

\* the loadFromFile of a caller other than the update command returns
LoadReadBuilds(c, file) ==
    /\ ~Busy
    /\ loadFromFileBuilds(c, file)
    /\ UNCHANGED <<envVars, search, lookup, related, noteVars>>

\* needsReload up to its await: true without a stat when the index is not
\* loaded or was loaded from another path
needsReloadWithoutStat(filePath) == ~loaded \/ filePath # lastFilePath

\* needsReload after its await: the comparison of the modification times
needsReloadAfterStat(mtime) == mtime > lastModifiedTime

\* a caller calls needsReload, which returns or awaits the stat of the file
NeedsReloadCall(filePath) ==
    /\ reload.pc = "idle"
    /\ reload' = IF needsReloadWithoutStat(filePath)
                 THEN [pc |-> "done", filePath |-> filePath, result |-> TRUE]
                 ELSE [pc |-> "stat", filePath |-> filePath, result |-> FALSE]
    /\ UNCHANGED <<indexVars, calls, loadGhosts, fileMtime, cmd, search, lookup, related,
                   noteVars>>

\* needsReload resumes with the modification time of the file and returns
NeedsReloadStat ==
    /\ reload.pc = "stat"
    /\ reload' = [reload EXCEPT !.pc = "done", !.result = needsReloadAfterStat(fileMtime)]
    /\ UNCHANGED <<indexVars, calls, loadGhosts, fileMtime, cmd, search, lookup, related,
                   noteVars>>

\* the caller is done with what needsReload returned
NeedsReloadReturn ==
    /\ reload.pc = "done"
    /\ reload' = NoReload
    /\ UNCHANGED <<indexVars, calls, loadGhosts, fileMtime, cmd, search, lookup, related,
                   noteVars>>

\* the embeddings file is written by the tool that produces it
ModifyFile ==
    /\ ~Busy
    /\ fileMtime < MaxMtime
    /\ fileMtime' = fileMtime + 1
    /\ UNCHANGED <<indexVars, calls, loadGhosts, reload, cmd, search, lookup, related,
                   noteVars>>

\* a caller calls findNearest and holds what it returned
FindNearest(queryVector, options) ==
    LET r == findNearest(queryVector, options)
    IN  /\ ~Busy
        /\ search' = [called |-> TRUE, queryVector |-> queryVector, options |-> options,
                      threw |-> r.threw, results |-> r.results]
        /\ UNCHANGED <<indexVars, calls, loadGhosts, envVars, lookup, related, noteVars>>

\* the caller is done with the results
SearchReturn ==
    /\ search.called
    /\ search' = NoSearch
    /\ UNCHANGED <<indexVars, calls, loadGhosts, envVars, lookup, related, noteVars>>

\* a caller calls getVectorForFile and holds what it returned
GetVectorForFile(filePath) ==
    LET r == getVectorForFile(filePath)
    IN  /\ ~Busy
        /\ lookup' = [called |-> TRUE, filePath |-> filePath, found |-> r.found,
                      vector |-> r.vector]
        /\ UNCHANGED <<indexVars, calls, loadGhosts, envVars, search, related, noteVars>>

\* the caller is done with the vector
LookupReturn ==
    /\ lookup.called
    /\ lookup' = NoLookup
    /\ UNCHANGED <<indexVars, calls, loadGhosts, envVars, search, related, noteVars>>

(***************************************************************************)
(* Actions on the note                                                     *)
(***************************************************************************)
\* the note is rewritten with the block generated for the related notes
UpdateNote(relatedNotes, options) ==
    LET newBlock == generateManagedBlock(relatedNotes, options)
    IN  /\ content' = updateManagedBlock(content, newBlock)
        /\ lastBlock' = newBlock
        /\ lastRender' = [called |-> TRUE, relatedNotes |-> relatedNotes,
                          options |-> options]
        /\ lastOp' = "update"
        /\ UNCHANGED <<original, indexVars, calls, loadGhosts, envVars, search, lookup,
                       related>>

\* the managed block is removed from the note
RemoveNote ==
    /\ content' = removeManagedBlock(content)
    /\ lastOp' = "remove"
    /\ UNCHANGED <<original, lastBlock, lastRender, indexVars, calls, loadGhosts, envVars,
                   search, lookup, related>>

(***************************************************************************)
(* Actions of the update command                                           *)
(***************************************************************************)
\* updateRelatedLinksForFile from the return of ensureEmbeddingsLoaded to the
\* await of vault.read: the vector of the note, its neighbours, the existing
\* ones among them and the block generated for them; what the command holds
\* when it reaches the await or returns before it
relatedFor(file, settings) ==
    LET currentVector == getVectorForFile(file)
        results == findNearest(currentVector.vector.values,
                       [k |-> settings.topK * 2,
                        threshold |-> settings.similarityThreshold,
                        excludePaths |-> <<file>>,
                        excludeFolders |-> settings.excludedFolders])
        relatedNotes == relatedNotesLoop(results.results, 1, <<>>, settings.topK,
                                         VaultFiles)
        options == [heading |-> settings.blockHeading,
                    showScores |-> settings.showSimilarityScore,
                    usePathLinks |-> settings.usePathLinks]
    IN  IF ~currentVector.found
        THEN [NoRelated EXCEPT !.called = TRUE, !.file = file, !.topK = settings.topK]
        ELSE IF results.threw
        THEN [NoRelated EXCEPT !.called = TRUE, !.file = file, !.topK = settings.topK,
                               !.found = TRUE, !.vector = currentVector.vector,
                               !.threw = TRUE]
        ELSE [called |-> TRUE, file |-> file, topK |-> settings.topK,
              found |-> TRUE, vector |-> currentVector.vector, threw |-> FALSE,
              results |-> results.results, relatedNotes |-> relatedNotes,
              options |-> options,
              newBlock |-> generateManagedBlock(relatedNotes, options)]

\* the update command reaches the await of vault.read, or returns before it
ComputeRelated(file, settings) ==
    /\ ~Busy
    /\ ~related.called
    /\ related' = relatedFor(file, settings)
    /\ UNCHANGED <<indexVars, calls, loadGhosts, envVars, search, lookup, noteVars>>

\* updateRelatedLinksForFile resumes with the note text and writes it back with
\* the block
WriteRelated ==
    /\ ~Busy
    /\ related.called
    /\ related.found
    /\ ~related.threw
    /\ content' = updateManagedBlock(content, related.newBlock)
    /\ lastBlock' = related.newBlock
    /\ lastRender' = [called |-> TRUE, relatedNotes |-> related.relatedNotes,
                      options |-> related.options]
    /\ lastOp' = "update"
    /\ related' = NoRelated
    /\ UNCHANGED <<original, indexVars, calls, loadGhosts, envVars, search, lookup>>

\* updateRelatedLinksForFile returns without writing: the note has no vector,
\* or findNearest threw
RelatedReturn ==
    /\ ~Busy
    /\ related.called
    /\ ~related.found \/ related.threw
    /\ related' = NoRelated
    /\ UNCHANGED <<indexVars, calls, loadGhosts, envVars, search, lookup, noteVars>>

\* updateRelatedLinksForFile that goes on to write although findNearest threw
commandAfterEnsure_ignoresThrow(command, computed) ==
    IF ~computed.found
    THEN [command EXCEPT !.pc = "done", !.outcome = "noVector"]
    ELSE [command EXCEPT !.pc = "read"]

\* updateRelatedLinksForFile after ensureEmbeddingsLoaded returned true: it
\* returns when the note has no vector, is ended by the error of findNearest,
\* or awaits vault.read
commandAfterEnsure(command, computed) ==
    IF ~computed.found
    THEN [command EXCEPT !.pc = "done", !.outcome = "noVector"]
    ELSE IF computed.threw
    THEN [command EXCEPT !.pc = "done", !.outcome = "threw"]
    ELSE [command EXCEPT !.pc = "read"]

\* the manual mapping loadEmbeddingsFromSettings passes
settingsConfig(settings) ==
    IF settings.jsonFormatMode = "manual"
    THEN ManualConfig(settings.manualPathKey, settings.manualEmbeddingKey)
    ELSE NoConfig

\* the update command is run on a note: ensureEmbeddingsLoaded returns false
\* without embeddings path; otherwise needsReload is called, which awaits the
\* stat of the file or returns true, and then loadFromFile is called
UpdateCommandStart(file, settings) ==
    /\ ~Busy
    /\ cmd.pc = "idle"
    /\ ~related.called
    /\ calls["command"].pc = "idle"
    /\ IF settings.embeddingsPath = <<>>
       THEN /\ cmd' = [NoCommand EXCEPT !.pc = "done", !.file = file,
                                        !.settings = settings,
                                        !.outcome = "notConfigured"]
            /\ UNCHANGED <<indexVars, calls, loadGhosts>>
       ELSE IF needsReloadWithoutStat(settings.embeddingsPath)
       THEN /\ loadFromFileCall("command", settings.embeddingsPath,
                                settings.jsonFormatMode, settingsConfig(settings))
            /\ cmd' = [NoCommand EXCEPT !.pc = "loading", !.file = file,
                                        !.settings = settings]
       ELSE /\ cmd' = [NoCommand EXCEPT !.pc = "needsReload", !.file = file,
                                        !.settings = settings]
            /\ UNCHANGED <<indexVars, calls, loadGhosts>>
    /\ UNCHANGED <<fileMtime, reload, search, lookup, related, noteVars>>

\* needsReload resumes with the modification time: loadFromFile is called for
\* a newer file; otherwise ensureEmbeddingsLoaded goes on to its return
UpdateCommandStat ==
    /\ ~Busy
    /\ cmd.pc = "needsReload"
    /\ IF needsReloadAfterStat(fileMtime)
       THEN /\ loadFromFileCall("command", cmd.settings.embeddingsPath,
                                cmd.settings.jsonFormatMode, settingsConfig(cmd.settings))
            /\ cmd' = [cmd EXCEPT !.pc = "loading"]
            /\ UNCHANGED related
       ELSE /\ cmd' = [cmd EXCEPT !.pc = "ensured"]
            /\ UNCHANGED <<indexVars, calls, loadGhosts>>
    /\ UNCHANGED <<fileMtime, reload, search, lookup, related, noteVars>>

\* the loadFromFile of the update command throws: ensureEmbeddingsLoaded
\* catches, shows the notice and returns false
UpdateCommandLoadThrows(file) ==
    /\ ~Busy
    /\ cmd.pc = "loading"
    /\ loadFromFileThrows("command", file)
    /\ cmd' = [cmd EXCEPT !.pc = "done", !.outcome = "loadFailed"]
    /\ UNCHANGED <<fileMtime, reload, search, lookup, related, noteVars>>

\* the loadFromFile of the update command returns: ensureEmbeddingsLoaded
\* goes on to its return
UpdateCommandLoadBuilds(file) ==
    /\ ~Busy
    /\ cmd.pc = "loading"
    /\ loadFromFileBuilds("command", file)
    /\ cmd' = [cmd EXCEPT !.pc = "ensured"]
    /\ UNCHANGED <<fileMtime, reload, search, lookup, related, noteVars>>

\* ensureEmbeddingsLoaded returns isLoaded(), in the same turn of the event
\* loop as the step before: the command returns, or goes on to the await of
\* vault.read
UpdateCommandEnsured ==
    /\ cmd.pc = "ensured"
    /\ IF ~loaded
       THEN /\ cmd' = [cmd EXCEPT !.pc = "done", !.outcome = "notLoaded"]
            /\ UNCHANGED related
       ELSE /\ related' = relatedFor(cmd.file, cmd.settings)
            /\ cmd' = commandAfterEnsure(cmd, relatedFor(cmd.file, cmd.settings))
    /\ UNCHANGED <<indexVars, calls, loadGhosts, fileMtime, reload, search, lookup,
                   noteVars>>

\* vault.read resumes the command with the text of the note: the new text is
\* computed and vault.modify is called with it
UpdateCommandRead ==
    /\ cmd.pc = "read"
    /\ cmd' = [cmd EXCEPT !.pc = "modify", !.currentContent = content,
                          !.newContent = updateManagedBlock(content, related.newBlock)]
    /\ UNCHANGED <<indexVars, calls, loadGhosts, fileMtime, reload, search, lookup,
                   related, noteVars>>

\* vault.modify writes the note
UpdateCommandModify ==
    /\ cmd.pc = "modify"
    /\ content' = cmd.newContent
    /\ lastBlock' = related.newBlock
    /\ lastRender' = [called |-> TRUE, relatedNotes |-> related.relatedNotes,
                      options |-> related.options]
    /\ lastOp' = "update"
    /\ cmd' = [cmd EXCEPT !.pc = "done", !.outcome = "written"]
    /\ UNCHANGED <<original, indexVars, calls, loadGhosts, fileMtime, reload, search,
                   lookup, related>>

\* the command has returned
UpdateCommandReturn ==
    /\ cmd.pc = "done"
    /\ cmd' = NoCommand
    /\ related' = NoRelated
    /\ UNCHANGED <<indexVars, calls, loadGhosts, fileMtime, reload, search, lookup,
                   noteVars>>

\* the user changes the text of the note in the editor
EditNote(text) ==
    /\ ~Busy
    /\ text # content
    /\ content' = text
    /\ lastOp' = "edit"
    /\ UNCHANGED <<original, lastBlock, lastRender, indexVars, calls, loadGhosts, envVars,
                   search, lookup, related>>

(***************************************************************************)
(* Specifications                                                          *)
(***************************************************************************)
SearchInit == InitIndex /\ InitNote(<<>>)

SearchNext ==
    \/ \E c \in Callers : LoadCall(c, EmbeddingsPath, "auto", NoConfig)
    \/ \E c \in Callers : LoadStat(c, 1)
    \/ \E c \in Callers, file \in SearchFiles : LoadReadThrows(c, file)
    \/ \E c \in Callers, file \in SearchFiles : LoadReadBuilds(c, file)
    \/ Unload
    \/ \E q \in SearchQueries, o \in SearchOptions : FindNearest(q, o)
    \/ SearchReturn

\* the index under loads, unloads and searches
SearchSpec == SearchInit /\ [][SearchNext]_vars

LookupNext ==
    \/ \E c \in Callers : LoadCall(c, EmbeddingsPath, "auto", NoConfig)
    \/ \E c \in Callers : LoadStat(c, 1)
    \/ \E c \in Callers, file \in LookupFiles : LoadReadThrows(c, file)
    \/ \E c \in Callers, file \in LookupFiles : LoadReadBuilds(c, file)
    \/ Unload
    \/ \E filePath \in LookupQueries : GetVectorForFile(filePath)
    \/ LookupReturn

\* the index under loads, unloads and lookups of a path
LookupSpec == SearchInit /\ [][LookupNext]_vars

CommandNext ==
    \/ \E c \in Callers : LoadCall(c, EmbeddingsPath, "auto", NoConfig)
    \/ \E c \in Callers : LoadStat(c, 1)
    \/ \E c \in Callers, file \in CommandFiles : LoadReadThrows(c, file)
    \/ \E c \in Callers, file \in CommandFiles : LoadReadBuilds(c, file)
    \/ \E file \in CommandNotes, settings \in CommandSettings :
          ComputeRelated(file, settings)
    \/ WriteRelated
    \/ RelatedReturn

\* the update command on a note of the vault, under loads of the index
CommandSpec == SearchInit /\ [][CommandNext]_vars

ReloadNext ==
    \/ \E c \in Callers : LoadCall(c, EmbeddingsPath, "auto", NoConfig)
    \/ \E c \in Callers : LoadStat(c, fileMtime)
    \/ \E c \in Callers, file \in ReloadFiles : LoadReadThrows(c, file)
    \/ \E c \in Callers, file \in ReloadFiles : LoadReadBuilds(c, file)
    \/ Unload
    \/ ModifyFile
    \/ \E filePath \in ReloadPaths : NeedsReloadCall(filePath)
    \/ NeedsReloadStat
    \/ NeedsReloadReturn

\* the index under loads and unloads while the embeddings file is modified
\* and callers ask whether it has to be loaded again
ReloadSpec == SearchInit /\ [][ReloadNext]_vars

UpdateCommandNext ==
    \/ LoadCall("startup", EmbeddingsPath, "auto", NoConfig)
    \/ \E c \in Callers : LoadStat(c, fileMtime)
    \/ \E file \in UpdateFiles : LoadReadThrows("startup", file)
    \/ \E file \in UpdateFiles : LoadReadBuilds("startup", file)
    \/ ModifyFile
    \/ \E file \in UpdateNotes, settings \in UpdateSettings :
          UpdateCommandStart(file, settings)
    \/ UpdateCommandStat
    \/ \E file \in UpdateFiles : UpdateCommandLoadThrows(file)
    \/ \E file \in UpdateFiles : UpdateCommandLoadBuilds(file)
    \/ UpdateCommandEnsured
    \/ UpdateCommandRead
    \/ UpdateCommandModify
    \/ UpdateCommandReturn
    \/ \E text \in EditedNotes : EditNote(text)

\* the update command from its invocation to its return, while the startup
\* load runs, the embeddings file is modified and the user edits the note
UpdateCommandSpec == SearchInit /\ [][UpdateCommandNext]_vars

ParseNext ==
    \/ \E m \in ParseModes : LoadCall("command", EmbeddingsPath, m.mode, m.config)
    \/ LoadStat("command", fileMtime)
    \/ \E file \in ParseFiles : LoadReadThrows("command", file)
    \/ \E file \in ParseFiles : LoadReadBuilds("command", file)

\* loads, one at a time, of files of every format in both format modes
ParseSpec == SearchInit /\ [][ParseNext]_vars

\* the pieces the initial note texts are made of
Pieces == {BLOCK_START_MARKER, BLOCK_END_MARKER, <<"\n">>, <<" ">>, <<"x">>}

\* the number of pieces of the longest initial note text
MaxPieces == 4

\* the texts of at most n pieces
RECURSIVE Texts(_)
Texts(n) ==
    IF n = 0 THEN {<<>>}
    ELSE Texts(n - 1) \cup {t \o p : t \in Texts(n - 1), p \in Pieces}

InitialNotes == Texts(MaxPieces)

NoteLists ==
    {<<>>,
     <<[path |-> Path_b_md, score |-> 994]>>,
     <<[path |-> <<"T", "/", "a", ".", "m", "d">>, score |-> 1000],
       [path |-> Path_b_md, score |-> -5]>>}

BlockOptions ==
    {[heading |-> Str_heading, showScores |-> FALSE, usePathLinks |-> TRUE],
     [heading |-> Str_heading, showScores |-> TRUE, usePathLinks |-> FALSE]}

NoteInit == InitIndex /\ \E text \in InitialNotes : InitNote(text)

UpdateNext == \E notes \in NoteLists, o \in BlockOptions : UpdateNote(notes, o)

\* a note under repeated updates of its managed block
UpdateSpec == NoteInit /\ [][UpdateNext]_vars

NoteNext ==
    \/ \E notes \in NoteLists, o \in BlockOptions : UpdateNote(notes, o)
    \/ RemoveNote

\* a note under updates and removals of its managed block
NoteSpec == NoteInit /\ [][NoteNext]_vars

(***************************************************************************)
(* Properties of findNearest                                               *)
(***************************************************************************)
\* a path after canonicalization: backslashes replaced by forward slashes,
\* then lower-cased
Canonical(path) ==
    [i \in 1..Len(path) |-> toLowerChar(IF path[i] = "\\" THEN "/" ELSE path[i])]

\* the caller holds the list a findNearest call returned from a loaded index
Returned == search.called /\ ~search.threw /\ loaded

\* the similarity of the query of the call to the i-th indexed entry
ScoreOf(i) ==
    cosineSimilarityNormalized(normalize(search.queryVector),
                               entries[i].normalizedVector.values).value

\* the i-th entry matches an excluded path of the call
MatchesExcludedPath(i) ==
    \E x \in 1..Len(search.options.excludePaths) :
        Canonical(search.options.excludePaths[x]) = Canonical(entries[i].path)

\* the i-th entry is an excluded folder of the call or lies under one
UnderExcludedFolder(i) ==
    \E x \in 1..Len(search.options.excludeFolders) :
        LET folder == Canonical(search.options.excludeFolders[x])
            path == Canonical(entries[i].path)
        IN  \/ path = folder
            \/ /\ Len(path) > Len(folder)
               /\ SubSeq(path, 1, Len(folder) + 1) = Append(folder, "/")

\* the entries that are not excluded and reach the threshold
Survivors ==
    {i \in 1..Len(entries) :
        /\ ~MatchesExcludedPath(i)
        /\ ~UnderExcludedFolder(i)
        /\ ScoreOf(i) >= search.options.threshold}

\* the canonical paths of the survivors: one per document
SurvivingDocuments == {Canonical(entries[i].path) : i \in Survivors}

\* the canonical paths of the returned results
ReturnedDocuments == {Canonical(search.results[j].path) : j \in 1..Len(search.results)}

\* C1: findNearest never returns two results whose canonicalized paths are equal
C1_NoDuplicatePaths ==
    \A i, j \in 1..Len(search.results) :
        i # j => Canonical(search.results[i].path) # Canonical(search.results[j].path)

\* C1 witness: two survivors spell the path of one returned document differently
C1_Witness ==
    /\ Returned
    /\ Len(search.results) >= 2
    /\ \E i, j \in Survivors :
          /\ entries[i].path # entries[j].path
          /\ Canonical(entries[i].path) = Canonical(entries[j].path)
          /\ Canonical(entries[i].path) \in ReturnedDocuments

\* the index holds exactly the three records of the scenario file
ScenarioIndex ==
    /\ loaded
    /\ Len(entries) = 3
    /\ entries[1] = [path |-> Path_a_md, normalizedVector |-> [id |-> 1, values |-> normalize(<<1000, 0>>)]]
    /\ entries[2] = [path |-> Path_b_md, normalizedVector |-> [id |-> 2, values |-> normalize(<<900, 100>>)]]
    /\ entries[3] = [path |-> Path_a_chunk2, normalizedVector |-> [id |-> 3, values |-> normalize(<<990, 0>>)]]

\* the call findNearest([1,0], k=5, threshold=0.5, excludePaths=[a.md]) was made
ScenarioCall ==
    /\ search.called
    /\ search.queryVector = <<1000, 0>>
    /\ search.options = [k |-> 5, threshold |-> 500, excludePaths |-> <<Path_a_md>>,
                         excludeFolders |-> <<>>]

\* C2: on the scenario index the scenario call returns exactly one result, b.md
C2_ScenarioReturnsOnlyB ==
    (ScenarioIndex /\ ScenarioCall) =>
        /\ ~search.threw
        /\ Len(search.results) = 1
        /\ search.results[1].path = Path_b_md

\* C3: every returned score is the best score among the survivors of its document
C3_BestScoreKept ==
    Returned =>
        \A j \in 1..Len(search.results) :
            LET same == {i \in Survivors :
                            Canonical(entries[i].path) = Canonical(search.results[j].path)}
            IN  /\ same # {}
                /\ \E i \in same : ScoreOf(i) = search.results[j].score
                /\ \A i \in same : ScoreOf(i) <= search.results[j].score

\* C3 witness: a returned document has an earlier survivor with a lower score
\* than a later one
C3_Witness ==
    /\ Returned
    /\ \E j \in 1..Len(search.results) :
          \E i1, i2 \in Survivors :
              /\ i1 < i2
              /\ Canonical(entries[i1].path) = Canonical(search.results[j].path)
              /\ Canonical(entries[i2].path) = Canonical(search.results[j].path)
              /\ ScoreOf(i1) < ScoreOf(i2)

\* C4: for k >= 1 at most k results are returned, as many as there are
\* documents up to k, and no document left out scores higher than one returned
C4_TopK ==
    (Returned /\ search.options.k >= 1) =>
        /\ Len(search.results) <= search.options.k
        /\ Len(search.results) =
              (IF Cardinality(SurvivingDocuments) < search.options.k
               THEN Cardinality(SurvivingDocuments) ELSE search.options.k)
        /\ \A i \in Survivors :
              Canonical(entries[i].path) \notin ReturnedDocuments =>
                  \A j \in 1..Len(search.results) : ScoreOf(i) <= search.results[j].score

\* C4 witness: more documents survive than k, and one left out scores lower
C4_Witness ==
    /\ Returned
    /\ search.options.k >= 1
    /\ Len(search.results) = search.options.k
    /\ Cardinality(SurvivingDocuments) > search.options.k
    /\ \E i \in Survivors :
          /\ Canonical(entries[i].path) \notin ReturnedDocuments
          /\ ScoreOf(i) < search.results[Len(search.results)].score

\* C5: for k <= 0 findNearest returns an empty list
C5_NonPositiveKEmpty ==
    (search.called /\ ~search.threw /\ search.options.k <= 0) => search.results = <<>>

\* C6: every returned score reaches the threshold
C6_AboveThreshold ==
    \A j \in 1..Len(search.results) : search.results[j].score >= search.options.threshold

\* C6 witness: an entry that is not excluded falls below the threshold, another
\* is returned
C6_Witness ==
    /\ Returned
    /\ Len(search.results) >= 1
    /\ \E i \in 1..Len(entries) :
          /\ ~MatchesExcludedPath(i)
          /\ ~UnderExcludedFolder(i)
          /\ ScoreOf(i) < search.options.threshold

\* C7: the returned list is sorted by score descending
C7_SortedDescending ==
    \A j \in 1..(Len(search.results) - 1) :
        search.results[j].score >= search.results[j + 1].score

\* C7 witness: a result with a higher score precedes one indexed before it
C7_Witness ==
    /\ Returned
    /\ \E j \in 1..(Len(search.results) - 1) :
          /\ search.results[j].score > search.results[j + 1].score
          /\ \E i1, i2 \in 1..Len(entries) :
                /\ i1 < i2
                /\ entries[i1].path = search.results[j + 1].path
                /\ entries[i2].path = search.results[j].path

\* C8: no returned path matches an excluded path or lies under an excluded folder
C8_NoExcluded ==
    \A j \in 1..Len(search.results) :
        /\ \A x \in 1..Len(search.options.excludePaths) :
              Canonical(search.options.excludePaths[x]) # Canonical(search.results[j].path)
        /\ \A x \in 1..Len(search.options.excludeFolders) :
              LET folder == Canonical(search.options.excludeFolders[x])
                  path == Canonical(search.results[j].path)
              IN  /\ path # folder
                  /\ ~(/\ Len(path) > Len(folder)
                       /\ SubSeq(path, 1, Len(folder) + 1) = Append(folder, "/"))

\* C8 witness: one entry is excluded by a path written differently, another by
\* a folder written differently, and something is returned
C8_Witness ==
    /\ Returned
    /\ Len(search.results) >= 1
    /\ \E i \in 1..Len(entries) :
          /\ MatchesExcludedPath(i)
          /\ \A x \in 1..Len(search.options.excludePaths) :
                search.options.excludePaths[x] # entries[i].path
    /\ \E i \in 1..Len(entries) :
          /\ UnderExcludedFolder(i)
          /\ ~MatchesExcludedPath(i)
          /\ \A x \in 1..Len(search.options.excludeFolders) :
                ~startsWith(entries[i].path, search.options.excludeFolders[x])

(***************************************************************************)
(* Properties of the managed block                                         *)
(***************************************************************************)
\* C9: a second update with the same block leaves the text of the first
\* update unchanged
C9_UpdateIdempotent ==
    [][(lastOp = "update" /\ lastOp' = "update" /\ lastBlock' = lastBlock)
          => content' = content]_vars

\* the text of the initial note, trimmed at the end, that precedes its managed
\* block; all of it when the note has no complete block
UserTextBefore ==
    LET b == findManagedBlock(original)
    IN  trimEnd(IF b.found THEN substringTo(original, b.startIndex) ELSE original)

\* the text of the initial note, trimmed at the start, that follows its managed
\* block
UserTextAfter ==
    LET b == findManagedBlock(original)
    IN  trimStart(IF b.found THEN substringFrom(original, b.endIndex) ELSE <<>>)

\* C10: after any sequence of updates the note still begins with the user text
\* before the block and ends with the user text after it
C10_UserTextKept ==
    /\ startsWith(content, UserTextBefore)
    /\ endsWith(content, UserTextAfter)


(***************************************************************************)
(* Properties of the managed block operations                              *)
(***************************************************************************)
\* marker occurs in text at the 0-based position i
OccursAt(text, marker, i) ==
    /\ i + Len(marker) <= Len(text)
    /\ text[i + 1] = marker[1]
    /\ SubSeq(text, i + 1, i + Len(marker)) = marker

\* the positions of the start markers of text
StartPositions(text) ==
    {i \in 0..Len(text) : OccursAt(text, BLOCK_START_MARKER, i)}

\* the position of the first start marker of text
FirstStart(text) ==
    LET positions == StartPositions(text)
    IN  CHOOSE i \in positions : \A j \in positions : i <= j

\* the positions of the end markers of text at or after its first start marker
EndPositions(text) ==
    LET first == FirstStart(text)
    IN  {i \in first..Len(text) : OccursAt(text, BLOCK_END_MARKER, i)}

\* text holds a block: a start marker with an end marker at or after it
HasBlock(text) == StartPositions(text) # {} /\ EndPositions(text) # {}

\* the position of the end marker that closes the block of text
FirstEnd(text) ==
    LET positions == EndPositions(text)
    IN  CHOOSE i \in positions : \A j \in positions : i <= j

\* the text before the block, without its trailing white space
TrimmedBefore(text) == trimEnd(SubSeq(text, 1, FirstStart(text)))

\* the text after the block, without its leading white space
TrimmedAfter(text) ==
    trimStart(SubSeq(text, FirstEnd(text) + Len(BLOCK_END_MARKER) + 1, Len(text)))

BlankLine == <<"\n", "\n">>

\* C11: when the note holds a block, an update writes the trimmed text before the
\* block, a blank line if that text is not empty, the new block, and then a blank
\* line and the trimmed text after the block if that text is not empty, else a
\* single line break
C11_ReplaceInPlace ==
    [][(lastOp' = "update" /\ HasBlock(content))
          => LET before == TrimmedBefore(content)
                 after == TrimmedAfter(content)
             IN  content' =
                    before
                    \o (IF before # <<>> THEN BlankLine ELSE <<>>)
                    \o lastBlock'
                    \o (IF after # <<>> THEN BlankLine \o after ELSE <<"\n">>)]_vars

\* C11 witness: a note with text on both sides of its block was updated, and one
\* blank line separates the block from the text on each side
C11_Witness ==
    /\ lastOp = "update"
    /\ HasBlock(original)
    /\ TrimmedBefore(original) # <<>>
    /\ TrimmedAfter(original) # <<>>
    /\ content = TrimmedBefore(original) \o BlankLine \o lastBlock \o BlankLine
                 \o TrimmedAfter(original)

\* C12: when the note has no start marker, or no end marker at or after its first
\* start marker, no block is located and an update appends: the new block and a
\* line break when the trimmed note is empty, else the trimmed note, a blank
\* line, the new block and a line break
C12_AppendWithoutBlock ==
    [][(lastOp' = "update" /\ ~HasBlock(content))
          => /\ ~findManagedBlock(content).found
             /\ content' =
                   IF trimEnd(content) = <<>> THEN lastBlock' \o <<"\n">>
                   ELSE trimEnd(content) \o BlankLine \o lastBlock' \o <<"\n">>]_vars

\* C12 witness: a note that has text and a start marker but no end marker was
\* updated, and the block was appended to it
C12_Witness ==
    /\ lastOp = "update"
    /\ StartPositions(original) # {}
    /\ ~HasBlock(original)
    /\ content = trimEnd(original) \o BlankLine \o lastBlock \o <<"\n">>

\* the splice of C13: what is left when one side is empty is given by afterEmpty
Spliced(text, afterEmpty) ==
    IF ~HasBlock(text) THEN text
    ELSE LET before == TrimmedBefore(text)
             after == TrimmedAfter(text)
         IN  IF before = <<>> THEN after
             ELSE IF after = <<>> THEN afterEmpty
             ELSE before \o BlankLine \o after

\* C13 as stated: a removal leaves the text unchanged when it has no block, else
\* joins the trimmed sides with one blank line, and leaves just the remaining
\* side, with nothing added, when the other side is empty
C13_RemoveLeavesRemainingSide ==
    [][lastOp' = "remove" => content' = Spliced(content, TrimmedBefore(content))]_vars

\* C13 amended: as stated, except that when only the text after the block is
\* empty the result is the trimmed text before the block followed by one line
\* break
C13_RemoveSplices ==
    [][lastOp' = "remove"
          => content' = Spliced(content, TrimmedBefore(content) \o <<"\n">>)]_vars

\* C13 witness: the block was removed from a note with text before it and none
\* after it, and the text is followed by one line break
C13_Witness ==
    /\ lastOp = "remove"
    /\ HasBlock(original)
    /\ TrimmedBefore(original) # <<>>
    /\ TrimmedAfter(original) = <<>>
    /\ content = TrimmedBefore(original) \o <<"\n">>

\* the lines of a text: the parts between its line breaks
RECURSIVE SplitLines(_)
SplitLines(text) ==
    LET breaks == {i \in 1..Len(text) : text[i] = "\n"}
    IN  IF breaks = {} THEN <<text>>
        ELSE LET i == CHOOSE x \in breaks : \A y \in breaks : x <= y
             IN  <<SubSeq(text, 1, i - 1)>> \o SplitLines(SubSeq(text, i + 1, Len(text)))

\* C14: the rendered block is the start marker line, the heading line, one link
\* line per note in the order of the notes (or the placeholder line when there
\* are none) and the end marker line: max(1, n) + 3 lines for n notes
C14_RenderLines ==
    lastRender.called =>
        LET lines == SplitLines(lastBlock)
            notes == lastRender.relatedNotes
            n == Len(notes)
        IN  /\ Len(lines) = (IF n > 1 THEN n ELSE 1) + 3
            /\ lines[1] = BLOCK_START_MARKER
            /\ lines[2] = lastRender.options.heading
            /\ lines[Len(lines)] = BLOCK_END_MARKER
            /\ n = 0 => lines[3] = Str_placeholder
            /\ \A i \in 1..n :
                  startsWith(lines[i + 2], <<"-", " ", "[", "[">> \o notes[i].path)

\* C14 witness: a block was rendered for two different notes
C14_Witness ==
    /\ lastRender.called
    /\ Len(lastRender.relatedNotes) = 2
    /\ lastRender.relatedNotes[1].path # lastRender.relatedNotes[2].path


(***************************************************************************)
(* Properties of loading                                                   *)
(***************************************************************************)
\* the index holds nothing and is not loaded
IndexEmpty ==
    /\ ~loaded
    /\ entryCount = 0
    /\ entries = <<>>
    /\ pathIndex = <<>>

\* the step in which a loadFromFile call throws
LoadFails ==
    /\ \E c \in Callers : calls[c].pc = "read" /\ calls'[c].pc = "idle"
    /\ lastLoad' = "threw"

\* C15: after a load that fails the index is empty and not loaded, whatever it
\* held before: no entry, no lookup key (so every getVectorForFile reports
\* not-found and every findNearest returns an empty list)
C15_FailedLoadLeavesEmpty == [][LoadFails => IndexEmpty']_vars

\* the lookup keys registered for a path: the path, the path without a
\* trailing .md, and the same two for the lower-cased path
Variants(path) ==
    LET lower == toLowerCase(path)
        stripped(p) == IF endsWith(p, Str_md) THEN {SubSeq(p, 1, Len(p) - 3)} ELSE {}
    IN  {path, lower} \cup stripped(path) \cup stripped(lower)

\* the index holds exactly the records of the parsed file: the entry list in
\* the order of the records and the lookup keys of their paths
HoldsExactly(parsed) ==
    /\ Len(entries) = Len(parsed)
    /\ \A i \in 1..Len(parsed) :
          /\ entries[i].path = parsed[i].path
          /\ entries[i].normalizedVector.values = normalize(parsed[i].vector)
    /\ DOMAIN pathIndex = UNION {Variants(parsed[i].path) : i \in 1..Len(parsed)}

\* C16: at every point the index is either empty and not loaded, or loaded and
\* holding exactly the entries and lookup keys of one successfully parsed file
C16_EmptyOrOneFile ==
    \/ IndexEmpty
    \/ /\ loaded
       /\ \E file \in LookupFiles :
             LET result == parseFile(file, "auto", NoConfig)
             IN  result.ok /\ HoldsExactly(result.entries)

\* C19: findNearest on an index that is not loaded returns an empty list and
\* raises no error, for every query and option set
C19_NotLoadedReturnsEmpty ==
    (search.called /\ ~loaded) => (~search.threw /\ search.results = <<>>)

\* C19 witness: findNearest was called, with a query of three components and a
\* positive k, after a load had failed
C19_Witness ==
    /\ search.called
    /\ ~loaded
    /\ lastLoad = "threw"
    /\ Len(search.queryVector) = 3
    /\ search.options.k > 0
    /\ search.results = <<>>

\* the entries that register the lookup key
Registering(key) == {i \in 1..Len(entries) : key \in Variants(entries[i].path)}

\* C20 as stated: once loaded, every variant key of every entry maps to that
\* entry's own vector instance
C20_VariantsMapToOwnVector ==
    loaded =>
        \A i \in 1..Len(entries) : \A key \in Variants(entries[i].path) :
            /\ key \in DOMAIN pathIndex
            /\ pathIndex[key] = entries[i].normalizedVector

\* C20 amended: once loaded, every variant key of every entry maps to the
\* vector instance of the last entry of the list that registers the key, and
\* the lookup holds no other key
C20_VariantsMapToLastWriter ==
    loaded =>
        /\ DOMAIN pathIndex = UNION {Variants(entries[i].path) : i \in 1..Len(entries)}
        /\ \A key \in DOMAIN pathIndex :
              LET last == CHOOSE i \in Registering(key) :
                              \A j \in Registering(key) : j <= i
              IN  pathIndex[key] = entries[last].normalizedVector

\* C20 witness: the loaded index holds two entries that differ only by case and
\* an entry that shares no key with another
C20_Witness ==
    /\ loaded
    /\ \E i, j \in 1..Len(entries) :
          /\ i < j
          /\ entries[i].path # entries[j].path
          /\ toLowerCase(entries[i].path) = toLowerCase(entries[j].path)
          /\ pathIndex[toLowerCase(entries[i].path)] = entries[j].normalizedVector
    /\ \E i \in 1..Len(entries) :
          \A key \in Variants(entries[i].path) : Registering(key) = {i}


(***************************************************************************)
(* Properties of getVectorForFile                                          *)
(***************************************************************************)
\* path without a trailing .md
WithoutMd(path) == IF endsWith(path, Str_md) THEN SubSeq(path, 1, Len(path) - 3) ELSE path

\* the seven lookups of a query in their order; a lookup without .md repeats
\* the one before it when there is no .md to remove
SevenLookups(q) ==
    LET slashed == replaceBackslashes(q)
        lower == toLowerCase(slashed)
        segment == lastSegment(slashed)
    IN  <<q, slashed, WithoutMd(slashed), lower, WithoutMd(lower),
          segment, WithoutMd(segment)>>

\* q and p differ at most in letter case, separator style and a trailing .md
DiffersOnlyInSpelling(q, p) ==
    WithoutMd(toLowerCase(replaceBackslashes(q)))
        = WithoutMd(toLowerCase(replaceBackslashes(p)))

\* C17: getVectorForFile returns the vector of the first of its seven lookups
\* that hits, reports not-found only if all seven miss, and finds a vector for
\* every query that differs from an indexed path only in letter case, separator
\* style or a trailing .md
C17_FirstHitOfSeven ==
    lookup.called =>
        LET keys == SevenLookups(lookup.filePath)
            hits == {i \in 1..7 : keys[i] \in DOMAIN pathIndex}
        IN  /\ lookup.found <=> hits # {}
            /\ lookup.found =>
                  lookup.vector = pathIndex[keys[CHOOSE i \in hits : \A j \in hits : i <= j]]
            /\ (\E i \in 1..Len(entries) :
                    DiffersOnlyInSpelling(lookup.filePath, entries[i].path))
                  => lookup.found

\* C17 witness: a query written with backslashes and in another letter case
\* than the indexed path misses the first three lookups and hits a later one
C17_Witness ==
    /\ lookup.called
    /\ lookup.found
    /\ \E i \in 1..Len(entries) :
          /\ DiffersOnlyInSpelling(lookup.filePath, entries[i].path)
          /\ lookup.filePath # entries[i].path
    /\ \A i \in 1..3 : SevenLookups(lookup.filePath)[i] \notin DOMAIN pathIndex
    /\ replaceBackslashes(lookup.filePath) # lookup.filePath

(***************************************************************************)
(* Properties of the update command                                        *)
(***************************************************************************)
\* C18: the block the update command generates lists no note twice and at most
\* topK notes
C18_NoNoteListedTwice ==
    (related.called /\ related.found /\ ~related.threw) =>
        LET notes == related.relatedNotes
            lines == SplitLines(related.newBlock)
        IN  /\ Len(notes) <= related.topK
            /\ \A i, j \in 1..Len(notes) : i # j => notes[i].path # notes[j].path
            /\ \A i, j \in 3..(Len(lines) - 1) : i # j => lines[i] # lines[j]


(***************************************************************************)
(* Properties of the parsers                                               *)
(***************************************************************************)
\* the decoded content of the file that was read
ReadData == lastRead.file.data

\* a file was read and decoded
ReadJson == lastRead.called /\ lastRead.file.kind = "json"

\* {"vectors": []}: an object whose vectors property is an empty array
IsEmptyWrapped(data) ==
    /\ data.t = "object"
    /\ \E i \in 1..Len(data.k) :
          data.k[i] = Str_vectors /\ data.a[i].t = "array" /\ data.a[i].a = <<>>

\* [] or {}
IsEmptyCollection(data) ==
    \/ data.t = "array" /\ data.a = <<>>
    \/ data.t = "object" /\ data.k = <<>>

\* the load succeeded with no entry and no error
LoadedEmpty ==
    /\ lastRead.result.ok
    /\ lastRead.result.entries = <<>>
    /\ lastRead.result.errorCount = 0
    /\ lastLoad = "ok"
    /\ loaded
    /\ entryCount = 0

\* a result was returned only with entries in it, and without a result the
\* load failed
EntriesOrFailure ==
    /\ lastRead.result.ok => lastRead.result.entries # <<>>
    /\ ~lastRead.result.ok => (lastLoad = "threw" /\ ~loaded)

\* C21 as stated: {"vectors": []}, [] and {} load successfully with zero
\* entries and zero errors; any other input from which no entry is extracted
\* makes the load fail
C21_EmptyLoadsNonEmptyFails ==
    ReadJson =>
        IF IsEmptyWrapped(ReadData) \/ IsEmptyCollection(ReadData)
        THEN LoadedEmpty ELSE EntriesOrFailure

\* C21 amended: [] and {} load successfully with zero entries and zero errors
\* in both format modes and {"vectors": []} does in auto mode; in manual mode
\* {"vectors": []} makes the load fail, as does in both modes any other input
\* from which no entry is extracted
C21_EmptyLoadsByMode ==
    ReadJson =>
        IF \/ IsEmptyCollection(ReadData)
           \/ IsEmptyWrapped(ReadData) /\ lastRead.mode = "auto"
        THEN LoadedEmpty ELSE EntriesOrFailure

\* C21 witness: {"vectors": []} was loaded in auto mode
C21_Witness ==
    /\ ReadJson
    /\ IsEmptyWrapped(ReadData)
    /\ lastRead.mode = "auto"
    /\ LoadedEmpty

\* the keys probed for the path and for the vector: the candidates, or the
\* keys of the manual mapping
ProbedPathKeys ==
    IF lastRead.mode = "auto" THEN PATH_KEYS
    ELSE IF lastRead.config.given THEN <<lastRead.config.pathKey>> ELSE <<Str_path>>

ProbedEmbeddingKeys ==
    IF lastRead.mode = "auto" THEN EMBEDDING_KEYS
    ELSE IF lastRead.config.given THEN <<lastRead.config.embeddingKey>>
    ELSE <<Str_embedding>>

\* the value of the first of the keys that the element has
Probe(item, keys) ==
    LET present == {i \in 1..Len(keys) :
                       \E j \in 1..Len(item.k) : item.k[j] = keys[i]}
    IN  IF present = {} THEN JUndefined
        ELSE LET first == CHOOSE i \in present : \A j \in present : i <= j
             IN  item.a[CHOOSE j \in 1..Len(item.k) : item.k[j] = keys[first]]

IsNumericArray(v) == v.t = "array" /\ \A i \in 1..Len(v.a) : v.a[i].t = "number"

\* the element has a string path and a numeric-array vector under the keys
HasPathAndVector(item, pathKeys, embeddingKeys) ==
    /\ item.t = "object"
    /\ Probe(item, pathKeys).t = "string"
    /\ IsNumericArray(Probe(item, embeddingKeys))

\* the same, with a path that is not empty
Parses(item, pathKeys, embeddingKeys) ==
    /\ HasPathAndVector(item, pathKeys, embeddingKeys)
    /\ Probe(item, pathKeys).s # <<>>

\* the entries of the elements of an array that are in the set good, in order
RECURSIVE EntriesOf(_, _, _, _, _)
EntriesOf(items, good, pathKeys, embeddingKeys, i) ==
    IF i > Len(items) THEN <<>>
    ELSE (IF i \in good
          THEN LET v == Probe(items[i], embeddingKeys).a
               IN  <<[path |-> parserNormalizePath(Probe(items[i], pathKeys).s),
                      vector |-> [j \in 1..Len(v) |-> v[j].n]]>>
          ELSE <<>>)
         \o EntriesOf(items, good, pathKeys, embeddingKeys, i + 1)

\* a non-empty array was read with candidate keys or a mapping without empty key
ReadArray ==
    /\ ReadJson
    /\ ReadData.t = "array"
    /\ ReadData.a # <<>>
    /\ \A i \in 1..Len(ProbedPathKeys) : ProbedPathKeys[i] # <<>>
    /\ \A i \in 1..Len(ProbedEmbeddingKeys) : ProbedEmbeddingKeys[i] # <<>>

\* C22 as stated: a non-empty array is rejected only if none of its elements
\* has a string path and a numeric-array vector; otherwise the entries of those
\* elements are returned in input order and every other element is counted
C22_RejectsOnlyIfNoneParse ==
    ReadArray =>
        LET items == ReadData.a
            good == {i \in 1..Len(items) :
                        HasPathAndVector(items[i], ProbedPathKeys, ProbedEmbeddingKeys)}
        IN  good # {} =>
               /\ lastRead.result.ok
               /\ lastRead.result.entries =
                     EntriesOf(items, good, ProbedPathKeys, ProbedEmbeddingKeys, 1)
               /\ Len(lastRead.result.entries) + lastRead.result.errorCount = Len(items)

\* C22 amended: a non-empty array is rejected exactly if its first element is
\* not an object or none of its elements has a non-empty string path and a
\* numeric-array vector; otherwise the entries of those elements are returned
\* in input order and every other element is counted
C22_RejectsIfFirstNotObjectOrNoneParse ==
    ReadArray =>
        LET items == ReadData.a
            good == {i \in 1..Len(items) :
                        Parses(items[i], ProbedPathKeys, ProbedEmbeddingKeys)}
        IN  /\ lastRead.result.ok <=> (items[1].t \in {"object", "array"} /\ good # {})
            /\ lastRead.result.ok =>
                  /\ lastRead.result.entries =
                        EntriesOf(items, good, ProbedPathKeys, ProbedEmbeddingKeys, 1)
                  /\ Len(lastRead.result.entries) + lastRead.result.errorCount
                        = Len(items)

\* C22 witness: an array was accepted with one entry and one skipped element
C22_Witness ==
    /\ ReadArray
    /\ lastRead.result.ok
    /\ Len(lastRead.result.entries) = 1
    /\ lastRead.result.errorCount = 1
    /\ entryCount = 1

\* C23: every path of an accepted result has no backslash and neither begins
\* nor ends with a slash
C23_PathsNormalized ==
    (lastRead.called /\ lastRead.result.ok) =>
        \A i \in 1..Len(lastRead.result.entries) :
            LET path == lastRead.result.entries[i].path
            IN  /\ \A j \in 1..Len(path) : path[j] # "\\"
                /\ path # <<>> => (path[1] # "/" /\ path[Len(path)] # "/")

\* C24: with a manual mapping the path of every element of an array is read
\* from the configured path key only and the vector from the configured
\* embedding key only, also when a configured key is the empty string
C24_OnlyConfiguredKeys ==
    (/\ ReadJson
     /\ lastRead.mode = "manual"
     /\ lastRead.config.given
     /\ ReadData.t = "array"
     /\ ReadData.a # <<>>
     /\ ReadData.a[1].t = "object") =>
        LET items == ReadData.a
            pathKeys == <<lastRead.config.pathKey>>
            embeddingKeys == <<lastRead.config.embeddingKey>>
            good == {i \in 1..Len(items) : Parses(items[i], pathKeys, embeddingKeys)}
        IN  /\ lastRead.result.ok <=> good # {}
            /\ lastRead.result.entries = EntriesOf(items, good, pathKeys, embeddingKeys, 1)


(***************************************************************************)
(* Properties of overlapping loads and of repeated updates                 *)
(***************************************************************************)
\* the step in which a loadFromFile call returns after the call that settled
\* before it had returned too, and which leaves no call pending
SecondLoadSucceeds ==
    /\ lastLoad = "ok"
    /\ lastLoad' = "ok"
    /\ \E c \in Callers : calls[c].pc = "read" /\ calls'[c].pc = "idle"
    /\ \A c \in Callers : calls'[c].pc = "idle"

\* C27: once the loadFromFile calls of the two callers have both completed
\* successfully, however they interleaved, the entry list holds exactly the
\* records of one file, none of them twice, and getEntryCount() is the length
\* of the entry list
C27_OverlappingLoadsHoldOneFile ==
    [][SecondLoadSucceeds =>
          /\ entryCount' = Len(entries')
          /\ \E file \in LookupFiles :
                LET result == parseFile(file, "auto", NoConfig)
                IN  result.ok /\ HoldsExactly(result.entries)']_vars

\* the positions of the end markers of text
AllEndPositions(text) ==
    {i \in 0..Len(text) : OccursAt(text, BLOCK_END_MARKER, i)}

\* text contains no marker
NoMarker(text) == StartPositions(text) = {} /\ AllEndPositions(text) = {}

\* text contains one start marker and one end marker, the start before the
\* end, and block is what they span
SingleBlock(text, block) ==
    LET starts == StartPositions(text)
        ends == AllEndPositions(text)
    IN  /\ Cardinality(starts) = 1
        /\ Cardinality(ends) = 1
        /\ \A i \in starts, j \in ends :
              /\ i < j
              /\ SubSeq(text, i + 1, j + Len(BLOCK_END_MARKER)) = block

\* C28: a note that had no marker holds, after any number of updates with any
\* generated blocks, exactly one start marker and exactly one end marker, the
\* start before the end, spanning exactly the block written last
C28_SingleBlock ==
    (NoMarker(original) /\ lastOp = "update") => SingleBlock(content, lastBlock)

\* C28 witness: a note with text and without marker was updated and holds the
\* block written last, which lists notes
C28_Witness ==
    /\ NoMarker(original)
    /\ trimEnd(original) # <<>>
    /\ lastOp = "update"
    /\ Len(lastRender.relatedNotes) >= 1
    /\ SingleBlock(content, lastBlock)
    /\ startsWith(content, trimEnd(original))


(***************************************************************************)
(* Properties of needsReload                                               *)
(***************************************************************************)
\* what needsReload returns for the embeddings file when nothing happens
\* between its call and its return
NeedsReloadNow ==
    needsReloadWithoutStat(EmbeddingsPath) \/ needsReloadAfterStat(fileMtime)

\* the step in which a loadFromFile call returns
LoadSucceeds ==
    /\ \E c \in Callers : calls[c].pc = "read" /\ calls'[c].pc = "idle"
    /\ lastLoad' = "ok"

\* needsReload returns true for an index that is not loaded or was loaded from
\* another path, and otherwise what the comparison of the modification time of
\* the file with the recorded one gives
NeedsReloadResult ==
    /\ (reload.pc = "idle" /\ reload'.pc # "idle"
           /\ (~loaded \/ reload'.filePath # lastFilePath))
          => (reload'.pc = "done" /\ reload'.result)
    /\ (reload.pc = "idle" /\ reload'.pc # "idle"
           /\ loaded /\ reload'.filePath = lastFilePath)
          => reload'.pc = "stat"
    /\ (reload.pc = "stat" /\ reload'.pc = "done")
          => (reload'.result <=> fileMtime > lastModifiedTime)

\* C25: needsReload returns true for an index that is not loaded or was loaded
\* from another path, and otherwise exactly when the modification time of the
\* file is greater than the recorded one; after a load succeeds it is false
\* unless the file was modified since the stat of that load, it stays false
\* until the file is modified or the index cleared, and after clear or a
\* failed load it is true
C25_NeedsReload ==
    [][/\ NeedsReloadResult
       /\ LoadSucceeds =>
             \A c \in Callers :
                (calls[c].pc = "read" /\ calls'[c].pc = "idle")
                   => (NeedsReloadNow' <=> fileMtime > calls[c].mtime)
       /\ (~NeedsReloadNow /\ NeedsReloadNow') => (fileMtime' > fileMtime \/ ~loaded')
       /\ (loaded /\ ~loaded') => NeedsReloadNow'
       /\ LoadFails => NeedsReloadNow']_vars

\* C29: when the embeddings file was modified after the stat of a load whose
\* records the index holds, also between that stat and the read, a needsReload
\* for its path returns true
C29_StaleIndexDetected ==
    [][(/\ reload.pc # "done"
        /\ reload'.pc = "done"
        /\ reload'.filePath = EmbeddingsPath
        /\ loaded
        /\ fileMtime > statFloor)
          => reload'.result]_vars


(***************************************************************************)
(* Properties of the update command with respect to its own note           *)
(***************************************************************************)
\* the update command resolves the vector of its note and searches with it
Searches == ~related.called /\ related'.called /\ related'.found /\ ~related'.threw

\* C26: when getVectorForFile resolves the path of the note to an entry of the
\* index, by any of its lookups, findNearest with that path as the only
\* excluded path does not return that entry, and the note is not in its own
\* list of related notes
C26_OwnEntryNotReturned ==
    [][Searches =>
          /\ \A i \in 1..Len(entries) :
                entries[i].normalizedVector = related'.vector =>
                   \A j \in 1..Len(related'.results) :
                      related'.results[j].path # entries[i].path
          /\ \A j \in 1..Len(related'.relatedNotes) :
                related'.relatedNotes[j].path # related'.file]_vars


(***************************************************************************)
(* Properties of the update command as a whole                             *)
(***************************************************************************)
\* the step in which vault.modify is called
Writes == cmd.outcome # "written" /\ cmd'.outcome = "written"

\* the step in which the command ends without having written
EndsWithoutWriting ==
    /\ cmd.pc # "done"
    /\ cmd'.pc = "done"
    /\ cmd'.outcome \in {"notConfigured", "loadFailed", "notLoaded", "noVector", "threw"}

\* C30: the update command leaves the note as it is when the embeddings path
\* is not configured, the load fails, the note has no vector or findNearest
\* throws; the note is written by no other step of the command than its
\* vault.modify, which writes updateManagedBlock of the text it has just read
\* and the generated block
C30_WritesOnlyOnSuccess ==
    [][/\ EndsWithoutWriting => content' = content
       /\ (content' # content /\ lastOp' # "edit") => Writes
       /\ Writes =>
             /\ cmd.settings.embeddingsPath # <<>>
             /\ related.found
             /\ ~related.threw
             /\ cmd.outcome = "none"
             /\ content' = updateManagedBlock(cmd.currentContent, related.newBlock)
       /\ (cmd.pc = "done" /\ cmd.outcome # "written") => cmd'.outcome # "written"]_vars

\* C30 witness: the command has written a block that lists a note into the
\* text it had read
C30_Witness ==
    /\ cmd.outcome = "written"
    /\ Len(related.relatedNotes) >= 1
    /\ cmd.currentContent = <<"x">>
    /\ content = updateManagedBlock(<<"x">>, related.newBlock)

=============================================================================
